---- MODULE Spec2Model ----
(***************************************************************************)
(* A model of the pykuang discovery engine: the self-sorting blacklists,   *)
(* the random host generator with its de-duplication cache, the relational *)
(* store (host / svc / xfr tables with their constraints and trigger) and   *)
(* the zone-transfer client.                                               *)
(*                                                                         *)
(* The module holds several specifications over one set of variables:      *)
(*   SpecBL     one IPBlacklist and one NameBlacklist under is_match calls  *)
(*   SpecGen    gen_workers running generate_host / generate_ip            *)
(*   SpecStore  arbitrary sequences of Database operations                 *)
(*   SpecXfr    the XFR feeder, and callers of XFRClient.perform_xfr       *)
(*   SpecRead   the read operations of the Database                        *)
(*   SpecSelect Scanner._select_port over stored hosts and services        *)
(*   SpecScan   the Scanner's feeder, scan workers and gatherer            *)
(*   SpecGather the gatherer storing scan results                          *)
(*   SpecPool   start / stop / start_one / stop_one of the worker pools    *)
(*   SpecNexus  the Nexus gatherer between generator and store             *)
(*   SpecHw     the generator's host queue and host_worker                 *)
(*   SpecCache  the de-duplication cache and its transactions              *)
(* SpecScanFair, SpecXfrFair and SpecPoolFair add the scheduling of threads.*)
(* A specification leaves the variables of the other parts untouched.      *)
(***************************************************************************)
EXTENDS Integers, Sequences, FiniteSets, TLC

VARIABLES
    \* ---- blacklist.py: one IPBlacklist, one NameBlacklist
    networks,    \* IPBlacklist.networks: sequence of [net, hit_cnt]
    patterns,    \* NameBlacklist.patterns: sequence of [pat, hit_cnt]
    blInit,      \* history: IPBlacklist.networks as constructed
    ipCalls,     \* history: number of IPBlacklist.is_match calls per address
    blLast,      \* history: the last is_match call, its result and comparisons
    \* ---- generator.py / cache.py
    bl_addr,     \* HostGenerator.bl_addr, one per gen_worker
    bl_name,     \* HostGenerator.bl_name, one per gen_worker
    ipcache,     \* the IPCache named database: key -> entry
    txOwner,     \* the holder of the LMDB write transaction (0: nobody)
    cacheGen,    \* history: number of complete purges so far
    gpc,         \* gen_worker -> position in generate_host
    gaddr,       \* gen_worker -> local addr of generate_host
    returned,    \* history: what generate_ip returned, in order
    generated,   \* history: what generate_host returned, in order
    \* ---- database.py
    now,         \* the wall clock (seconds)
    host,        \* table host: row i has id i
    svc,         \* table svc
    xfr,         \* table xfr
    lastOp,      \* history: the last Database call and how it ended
    hostObjs,    \* history: the Host objects host_add succeeded on, as it left them
    got,         \* the list the last host_get_* call returned, and its cnt
    \* ---- scanner.py
    selected,    \* history: the last _select_port call: host, plist, answer
    scActive,    \* Scanner._active
    wcnt,        \* Scanner.wcnt
    scanQ,       \* Scanner.scanQ: the ScanRequests waiting
    resQ,        \* Scanner.resQ: the ScanResults waiting
    sfpc,        \* Scanner._feeder: position
    fhosts,      \* Scanner._feeder: hosts of this round still to handle
    wpc,         \* scan worker -> position in Scanner._scan_worker
    gthPc,       \* Scanner._gatherer: position
    probes,      \* history: the scan_port calls, their handler and outcome
    \* ---- xfr.py
    feederPc,    \* XFRProcessor._feeder: position
    xpc,         \* caller -> position in XFRClient.perform_xfr
    xobj,        \* caller -> the XFR object passed to perform_xfr
    xns,         \* caller -> name servers still to try
    xlog,        \* history: xfr row id -> lifecycle events seen, in order
    \* ---- cache.py: one CacheDB and its user
    cacheDb,     \* the CacheDB: its ttl, the committed entries are in ipcache
    cacheTx,     \* the transaction of CacheDB.tx in progress, if any
    cacheLast,   \* history: the last operation on the transaction and its result
    \* ---- generator.py, xfr.py, scanner.py, nexus.py: the pools and their threads
    pools,       \* facility -> the pool object and the positions of its threads
    nx,          \* the Nexus: active_flag and the position of a start()/stop()
    nxCalls,     \* history: the pool methods the Nexus called, in order
    \* ---- generator.py: the host queue and the host_worker
    hostQ,       \* ParallelGenerator.hostQ: the Hosts waiting
    hw,          \* the generator's active flag and the host_worker's position
    hwLog        \* history: the Hosts the host_worker took and how host_add ended

blVars    == <<networks, patterns, blInit, ipCalls, blLast>>
genVars   == <<bl_addr, bl_name, ipcache, txOwner, cacheGen, gpc, gaddr,
               returned, generated>>
storeVars == <<now, host, svc, xfr, lastOp>>
xfrVars   == <<feederPc, xpc, xobj, xns, xlog>>
readVars  == <<hostObjs, got>>
scanVars  == <<selected, scActive, wcnt, scanQ, resQ, sfpc, fhosts, wpc, gthPc,
               probes>>
threadVars == <<scActive, wcnt, scanQ, resQ, sfpc, fhosts, wpc, gthPc, probes>>
poolVars  == <<pools, nx, nxCalls>>
cacheVars == <<cacheDb, cacheTx, cacheLast>>
hwVars    == <<hostQ, hw, hwLog>>
vars      == <<blVars, genVars, storeVars, xfrVars, readVars, scanVars, poolVars,
               cacheVars, hwVars>>

\* What the actions of one part of the program leave alone.
outsideBL    == <<genVars, storeVars, xfrVars, readVars, scanVars, poolVars, cacheVars,
                  hwVars>>
outsideGen   == <<blVars, storeVars, xfrVars, readVars, scanVars, poolVars, cacheVars,
                  hwVars>>
outsideStore == <<blVars, genVars, xfrVars, scanVars, poolVars, cacheVars,
                  hwVars>>
outsideXfr   == <<blVars, genVars, readVars, scanVars, poolVars, cacheVars,
                  hwVars>>
outsideScan  == <<blVars, genVars, xfrVars, readVars, poolVars, cacheVars,
                  hwVars>>
outsidePool  == <<blVars, genVars, storeVars, xfrVars, readVars, scanVars, cacheVars,
                  hwVars>>
\* The cache part works on ipcache and reads the clock.
outsideCache == <<blVars, bl_addr, bl_name, txOwner, cacheGen, gpc, gaddr, returned,
                  generated, host, svc, xfr, lastOp, xfrVars, readVars, scanVars,
                  poolVars, hwVars>>
\* The host_worker part works on hostQ and the host table.
outsideHw    == <<blVars, genVars, now, svc, xfr, lastOp, xfrVars, readVars, scanVars,
                  poolVars, cacheVars>>

(***************************************************************************)
(* Bounds of the model.                                                    *)
(***************************************************************************)
AddrBits    == 2    \* width of an address (the code's IPv4 addresses have 32)
MaxCalls    == 4    \* is_match calls on the standalone blacklists
MaxInitHits == 1    \* largest hit_cnt of an item of an initial list
MaxReturns  == 2    \* generate_ip returns over all gen_workers
MaxTime     == 2    \* last clock value
MaxHosts    == 2    \* rows of table host
MaxSvc      == 1    \* rows of table svc
MaxXfr      == 2    \* rows of table xfr

None == "None"      \* Python's None, where a string stands for it

Range(s) == {s[i] : i \in DOMAIN s}

RECURSIVE Pow2(_)
Pow2(n) == IF n = 0 THEN 1 ELSE 2 * Pow2(n - 1)

Addrs == 0 .. (Pow2(AddrBits) - 1)

(***************************************************************************)
(* blacklist.py                                                            *)
(***************************************************************************)

\* ip_network("a.b.c.d/plen"): a base address and a prefix length.
Net(base, plen) == [base |-> base, plen |-> plen]

\* `addr in self.net`: the address and the base agree on the first plen bits.
Covers(net, addr) ==
    addr \div Pow2(AddrBits - net.plen) = net.base \div Pow2(AddrBits - net.plen)

\* pat.search(name): the pattern (a literal) occurs anywhere in the name.
Search(pat, name) ==
    \E i \in 1 .. (Len(name) - Len(pat) + 1) :
        SubSeq(name, i, i + Len(pat) - 1) = pat

\* Where list.sort(key=lambda x: x.hit_cnt, reverse=True) puts an item: the sort
\* is stable, so an item goes behind every item whose hit count is at least its
\* own.
InsertBeforeTies(sorted, x) ==
    LET k == Cardinality({i \in DOMAIN sorted : sorted[i].hit_cnt > x.hit_cnt})
    IN  SubSeq(sorted, 1, k) \o <<x>> \o SubSeq(sorted, k + 1, Len(sorted))

InsertByHits(sorted, x) ==
    LET k == Cardinality({i \in DOMAIN sorted : sorted[i].hit_cnt >= x.hit_cnt})
    IN  SubSeq(sorted, 1, k) \o <<x>> \o SubSeq(sorted, k + 1, Len(sorted))

RECURSIVE SortFrom(_, _)
SortFrom(done, rest) ==
    IF rest = <<>> THEN done
    ELSE SortFrom(InsertByHits(done, Head(rest)), Tail(rest))

NoSort(items) == items

\* The re-sort that both is_match methods run after a hit.
SortByHits(items) == SortFrom(<<>>, items)

\* Index of the first item the linear scan finds matching, 0 if none does.
FirstHit(hits) == IF hits = {} THEN 0 ELSE CHOOSE i \in hits : \A j \in hits : i <= j

\* IPBlacklistItem.is_match / NameBlacklistItem.is_match on a hit.
ItemHit(item) == [item EXCEPT !.hit_cnt = @ + 1]

\* IPBlacklist.is_match: ret, the list afterwards, and the number of items
\* compared before the answer was known.
IPBlacklist_is_match(list, addr) ==
    LET i == FirstHit({j \in DOMAIN list : Covers(list[j].net, addr)})
    IN  IF i = 0
        THEN [ret |-> FALSE, list |-> list, cmp |-> Len(list)]
        ELSE [ret |-> TRUE,
              list |-> SortByHits([list EXCEPT ![i] = ItemHit(list[i])]),
              cmp |-> i]

\* NameBlacklist.is_match.
NameBlacklist_is_match(list, name) ==
    LET i == FirstHit({j \in DOMAIN list : Search(list[j].pat, name)})
    IN  IF i = 0
        THEN [ret |-> FALSE, list |-> list, cmp |-> Len(list)]
        ELSE [ret |-> TRUE,
              list |-> SortByHits([list EXCEPT ![i] = ItemHit(list[i])]),
              cmp |-> i]

\* from_list: every item starts with hit_cnt 0.
IPBlacklist_from_list(nets) == [i \in DOMAIN nets |-> [net |-> nets[i], hit_cnt |-> 0]]
NameBlacklist_from_list(pats) == [i \in DOMAIN pats |-> [pat |-> pats[i], hit_cnt |-> 0]]

SortedByHits(list) ==
    \A i, j \in DOMAIN list : i < j => list[i].hit_cnt >= list[j].hit_cnt

\* Three pairwise disjoint networks and one that overlaps the first two.
NetA == Net(0, AddrBits)
NetB == Net(1, AddrBits)
NetC == Net(2, AddrBits)
NetD == Net(0, AddrBits - 1)
NetPool == {NetA, NetB, NetC, NetD}
\* One address inside each of NetA, NetB, NetC and one in no network.
ProbeAddrs == {0, 1, 2, 3}

InitNetLists ==
    {s \in [1 .. 3 -> [net : NetPool, hit_cnt : 0 .. MaxInitHits]] :
        \A i, j \in 1 .. 3 : i # j => s[i].net # s[j].net}

PatPool == {<<"p", "p">>, <<"d">>, <<"p">>}
NamePool == {<<"w", "w">>, <<"p", "p", "p">>, <<"d", "p">>, <<"w", "d">>}

InitPatLists ==
    {s \in [1 .. 2 -> [pat : PatPool, hit_cnt : 0 .. MaxInitHits]] :
        s[1].pat # s[2].pat}

NoCall == [kind |-> "none", arg |-> None, ret |-> FALSE, cmp |-> 0]

BLInit ==
    /\ \/ networks \in InitNetLists /\ patterns = <<>>
       \/ networks = <<>> /\ patterns \in InitPatLists
    /\ blInit = networks
    /\ ipCalls = [a \in ProbeAddrs |-> 0]
    /\ blLast = NoCall

BLIdle ==
    /\ networks = <<>>
    /\ patterns = <<>>
    /\ blInit = <<>>
    /\ ipCalls = [a \in ProbeAddrs |-> 0]
    /\ blLast = NoCall

RECURSIVE SumOver(_, _)
SumOver(f, S) ==
    IF S = {} THEN 0
    ELSE LET x == CHOOSE y \in S : TRUE IN f[x] + SumOver(f, S \ {x})

BLCalls == SumOver(ipCalls, ProbeAddrs)

\* A caller asks the IPBlacklist about an address.
IPMatch(addr) ==
    /\ networks # <<>>
    /\ BLCalls < MaxCalls
    /\ LET r == IPBlacklist_is_match(networks, addr)
       IN  /\ networks' = r.list
           /\ blLast' = [kind |-> "ip", arg |-> addr, ret |-> r.ret, cmp |-> r.cmp]
    /\ ipCalls' = [ipCalls EXCEPT ![addr] = @ + 1]
    /\ UNCHANGED <<patterns, blInit>>
    /\ UNCHANGED outsideBL

\* A caller asks the NameBlacklist about a host name.
NameMatch(name) ==
    /\ patterns # <<>>
    /\ \A i \in DOMAIN patterns : patterns[i].hit_cnt < MaxInitHits + MaxCalls
    /\ LET r == NameBlacklist_is_match(patterns, name)
       IN  /\ patterns' = r.list
           /\ blLast' = [kind |-> "name", arg |-> name, ret |-> r.ret, cmp |-> r.cmp]
    /\ UNCHANGED <<networks, blInit, ipCalls>>
    /\ UNCHANGED outsideBL

BLNext ==
    \/ \E addr \in ProbeAddrs : IPMatch(addr)
    \/ \E name \in NamePool : NameMatch(name)

(***************************************************************************)
(* cache.py                                                                *)
(***************************************************************************)

NoExpiry == 0       \* CacheItem.expires = None; clock values are positive

\* The entry stored under a key: a set with at most one element (tx.get).
Entry(db, key) == {e \in db : e.key = key}

\* CacheItem.valid
CacheItem_valid(item, t) == item.expires = NoExpiry \/ item.expires > t

\* Tx.__contains__: the answer and the database afterwards.
Tx_contains(db, key, rw, t) ==
    IF Entry(db, key) = {}
    THEN [ret |-> FALSE, db |-> db]
    ELSE LET item == CHOOSE e \in Entry(db, key) : TRUE
         IN  [ret |-> CacheItem_valid(item, t),
              db |-> IF rw /\ ~CacheItem_valid(item, t) THEN db \ {item} ELSE db]

\* What lmdb takes for a key: bytes; for a str it raises TypeError.
LmdbTakes(kind) == kind = "bytes"

\* The key Tx.__getitem__ hands to tx.delete: the str key itself.
GetitemDeleteKey == "str"

\* Tx.__getitem__: the value or None, the database afterwards, and the
\* exception if one is raised.
Tx_getitem(db, key, rw, t) ==
    IF Entry(db, key) = {}
    THEN [ret |-> None, db |-> db, err |-> ""]
    ELSE LET item == CHOOSE e \in Entry(db, key) : TRUE
         IN  IF CacheItem_valid(item, t)
             THEN [ret |-> item.item, db |-> db, err |-> ""]
             ELSE IF ~rw THEN [ret |-> None, db |-> db, err |-> ""]
             ELSE IF LmdbTakes(GetitemDeleteKey)
                  THEN [ret |-> None, db |-> db \ {item}, err |-> ""]
             ELSE [ret |-> None, db |-> db, err |-> "TypeError"]

\* Tx.__delitem__ in a read-write transaction.
Tx_delitem(db, key) == db \ Entry(db, key)

\* Tx.__setitem__ in a read-write transaction (put with overwrite=True).
Tx_setitem(db, key, val, ttl, t) ==
    (db \ Entry(db, key)) \cup
        {[key |-> key, item |-> val,
          expires |-> IF ttl = NoExpiry THEN NoExpiry ELSE t + ttl]}

\* CacheDB.purge
CacheDB_purge(db, complete, t) ==
    {e \in db : ~(complete \/ ~CacheItem_valid(e, t))}

(***************************************************************************)
(* generator.py                                                            *)
(***************************************************************************)

GenWorkers == {1, 2}
MaxPurges == 1      \* complete purges of the IPCache
NoAddr == -1        \* addr = None in generate_ip / generate_host
NoName == <<>>      \* name = None in generate_host
\* The host names the resolver answers with: one that passes the name
\* blacklist and one that does not.
GenNames == {<<"w", "w">>, <<"d", "p">>}

\* model.py HostSource
HostSource == [Generator |-> 1, MX |-> 2, NS |-> 3, XFR |-> 4, User |-> 5]

\* forbidden_networks and forbidden_names, scaled to the model's addresses and
\* names: the second network contains the first, as 240.0.0.0/4 contains
\* 255.0.0.0/8.
forbidden_networks == <<Net(0, AddrBits), Net(0, AddrBits - 1)>>
forbidden_names == <<(<<"p", "p">>), (<<"d">>)>>

\* The ttl of the generator's IPCache: get_db is called without one.
GenTtl == NoExpiry

\* The provenance of a Host constructed without src.
Host_default_src == HostSource.Generator

\* Host(name=name, addr=addr)
NewHost(name, addr) == [name |-> name, addr |-> addr, src |-> Host_default_src]

\* generate_ip, line 79: whether the drawn address is kept.
KeepsDrawn(blacklisted, cached) == blacklisted \/ ~cached

\* generate_host, line 125: whether a resolved name is dropped.
NeverDropsName(name, blacklisted) == FALSE
DropsName(name, blacklisted) == name # NoName /\ blacklisted

GenInit ==
    /\ bl_addr = [w \in GenWorkers |-> IPBlacklist_from_list(forbidden_networks)]
    /\ bl_name = [w \in GenWorkers |-> NameBlacklist_from_list(forbidden_names)]
    /\ ipcache = {}
    /\ txOwner = 0
    /\ cacheGen = 0
    /\ gpc = [w \in GenWorkers |-> "start"]
    /\ gaddr = [w \in GenWorkers |-> NoAddr]
    /\ returned = <<>>
    /\ generated = <<>>

\* generate_ip: `with self.ipcache.tx(True)` takes the environment's one
\* write transaction.
GenIpBegin(w) ==
    /\ gpc[w] = "start"
    /\ txOwner = 0
    /\ Len(returned) < MaxReturns
    /\ txOwner' = w
    /\ gpc' = [gpc EXCEPT ![w] = "draw"]
    /\ UNCHANGED <<bl_addr, bl_name, ipcache, cacheGen, gaddr, returned, generated>>
    /\ UNCHANGED outsideGen

\* generate_ip: one round of the loop on the drawn address a. When the address
\* is kept the transaction commits and generate_ip returns it.
GenIpDraw(w, a) ==
    /\ gpc[w] = "draw"
    /\ txOwner = w
    /\ LET m == IPBlacklist_is_match(bl_addr[w], a)
           c == IF m.ret THEN [ret |-> FALSE, db |-> ipcache]
                ELSE Tx_contains(ipcache, a, TRUE, now)
       IN  /\ bl_addr' = [bl_addr EXCEPT ![w] = m.list]
           /\ IF KeepsDrawn(m.ret, c.ret)
              THEN /\ ipcache' = Tx_setitem(c.db, a, "1", GenTtl, now)
                   /\ gaddr' = [gaddr EXCEPT ![w] = a]
                   /\ returned' = Append(returned, [addr |-> a, gen |-> cacheGen])
                   /\ txOwner' = 0
                   /\ gpc' = [gpc EXCEPT ![w] = "resolve"]
              ELSE /\ ipcache' = c.db
                   /\ UNCHANGED <<gaddr, returned, txOwner, gpc>>
    /\ UNCHANGED <<bl_name, cacheGen, generated>>
    /\ UNCHANGED outsideGen

\* generate_host after generate_ip: resolve_name answers r (NoName for every
\* failure), the name blacklist is asked, and the loop ends with a Host or
\* starts over.
GenResolve(w, r) ==
    /\ gpc[w] = "resolve"
    /\ LET m == IF r = NoName THEN [ret |-> FALSE, list |-> bl_name[w]]
                ELSE NameBlacklist_is_match(bl_name[w], r)
           name == IF DropsName(r, m.ret) THEN NoName ELSE r
       IN  /\ bl_name' = [bl_name EXCEPT ![w] = m.list]
           /\ IF gaddr[w] = NoAddr \/ name = NoName
              THEN UNCHANGED generated
              ELSE generated' = Append(generated, NewHost(name, gaddr[w]))
    /\ gpc' = [gpc EXCEPT ![w] = "start"]
    /\ gaddr' = [gaddr EXCEPT ![w] = NoAddr]
    /\ UNCHANGED <<bl_addr, ipcache, txOwner, cacheGen, returned>>
    /\ UNCHANGED outsideGen

\* CacheDB.purge(complete=True) on the IPCache, in its own write transaction.
CachePurge ==
    /\ txOwner = 0
    /\ cacheGen < MaxPurges
    /\ ipcache # {}
    /\ ipcache' = CacheDB_purge(ipcache, TRUE, now)
    /\ cacheGen' = cacheGen + 1
    /\ UNCHANGED <<bl_addr, bl_name, txOwner, gpc, gaddr, returned, generated>>
    /\ UNCHANGED outsideGen

GenIdle ==
    /\ bl_addr = <<>>
    /\ bl_name = <<>>
    /\ ipcache = {}
    /\ txOwner = 0
    /\ cacheGen = 0
    /\ gpc = <<>>
    /\ gaddr = <<>>
    /\ returned = <<>>
    /\ generated = <<>>

GenNext ==
    \/ \E w \in GenWorkers : GenIpBegin(w)
    \/ \E w \in GenWorkers, a \in Addrs : GenIpDraw(w, a)
    \/ \E w \in GenWorkers, r \in GenNames \cup {NoName} : GenResolve(w, r)
    \/ CachePurge

(***************************************************************************)
(* database.py: the schema (qinit) and the Database methods.  A table is   *)
(* the sequence of its rows, row i having id i (INTEGER PRIMARY KEY, no    *)
(* row is ever deleted).  A method is an operator from the tables and its  *)
(* arguments to the exception it ends with ("" for none) and the tables    *)
(* afterwards.                                                             *)
(***************************************************************************)

Null == 0           \* SQL NULL in host.last_contact; clock values are positive
MinPort == 1        \* CHECK (port BETWEEN 1 AND 65535)
MaxPort == 65535
MinSrc == 1         \* CHECK (src BETWEEN 1 AND 5)
MaxSrc == 5

\* CREATE TABLE host: addr UNIQUE, CHECK (src BETWEEN 1 AND 5); name is
\* TEXT NOT NULL and has no CHECK.
HostChecksNoUnique(hostTbl, name, addr, src) ==
    /\ src >= MinSrc /\ src <= MaxSrc

HostChecks(hostTbl, name, addr, src) ==
    /\ \A i \in DOMAIN hostTbl : hostTbl[i].addr # addr
    /\ src >= MinSrc /\ src <= MaxSrc

\* CREATE TABLE svc: the foreign key on host (id), UNIQUE (host_id, port) and
\* CHECK (port BETWEEN 1 AND 65535).
SvcChecksNoPort(hostTbl, svcTbl, host_id, port) ==
    /\ host_id \in DOMAIN hostTbl
    /\ \A i \in DOMAIN svcTbl : ~(svcTbl[i].host_id = host_id /\ svcTbl[i].port = port)

SvcChecksNoUnique(hostTbl, svcTbl, host_id, port) ==
    /\ host_id \in DOMAIN hostTbl
    /\ port >= MinPort /\ port <= MaxPort

SvcChecksNoForeignKey(hostTbl, svcTbl, host_id, port) ==
    /\ \A i \in DOMAIN svcTbl : ~(svcTbl[i].host_id = host_id /\ svcTbl[i].port = port)
    /\ port >= MinPort /\ port <= MaxPort

SvcChecks(hostTbl, svcTbl, host_id, port) ==
    /\ host_id \in DOMAIN hostTbl
    /\ \A i \in DOMAIN svcTbl : ~(svcTbl[i].host_id = host_id /\ svcTbl[i].port = port)
    /\ port >= MinPort /\ port <= MaxPort

\* CREATE TRIGGER tr_host_contact AFTER INSERT ON svc: last_contact = unixepoch()
NoTrigger(hostTbl, host_id, t) == hostTbl

tr_host_contact(hostTbl, host_id, t) ==
    [hostTbl EXCEPT ![host_id].last_contact = t]

\* CREATE TABLE xfr: name UNIQUE, CHECK (finished >= started).
XfrNameNotUnique(xfrTbl, name) == TRUE
XfrNameFree(xfrTbl, name) == \A i \in DOMAIN xfrTbl : xfrTbl[i].name # name
XfrRowCheck(row) == row.finished >= row.started

\* The storage class sqlite3 binds a Python parameter with: an int as INTEGER,
\* a datetime through the default adapter as ISO text.
BoundAs(pytype) == IF pytype = "int" THEN "INTEGER" ELSE "TEXT"

\* An INTEGER column of a STRICT table takes INTEGER values only (a text that
\* is no number is refused: "cannot store TEXT value in INTEGER column").
StrictIntegerTakes(storage) == storage = "INTEGER"

\* host_update_contact binds tstamp itself, a datetime.
ContactParamAsInt == "int"
ContactParam == "datetime"

\* Database.host_add
Database_host_add(hostTbl, name, addr, src, t) ==
    IF HostChecks(hostTbl, name, addr, src)
    THEN [err |-> "", id |-> Len(hostTbl) + 1,
          host |-> Append(hostTbl, [name |-> name, addr |-> addr, src |-> src,
                                    added |-> t, last_contact |-> Null, xfr |-> 0])]
    ELSE [err |-> "IntegrityError", id |-> -1, host |-> hostTbl]

\* Database.host_update_contact
Database_host_update_contact(hostTbl, host_id, tstamp) ==
    IF host_id < 1 THEN [err |-> "ValueError", host |-> hostTbl]
    ELSE IF host_id \notin DOMAIN hostTbl THEN [err |-> "", host |-> hostTbl]
    ELSE IF ~StrictIntegerTakes(BoundAs(ContactParam))
         THEN [err |-> "IntegrityError", host |-> hostTbl]
    ELSE [err |-> "", host |-> [hostTbl EXCEPT ![host_id].last_contact = tstamp]]

\* Database.host_set_xfr
Database_host_set_xfr(hostTbl, host_id) ==
    IF host_id \in DOMAIN hostTbl
    THEN [hostTbl EXCEPT ![host_id].xfr = 1]
    ELSE hostTbl

\* Database.service_add: every sqlite3.Error becomes a DBError; on success the
\* trigger runs in the same statement.
Database_service_add(hostTbl, svcTbl, host_id, port, added, t) ==
    IF SvcChecks(hostTbl, svcTbl, host_id, port)
    THEN [err |-> "",
          svc |-> Append(svcTbl, [host_id |-> host_id, port |-> port, added |-> added]),
          host |-> tr_host_contact(hostTbl, host_id, t)]
    ELSE [err |-> "DBError", svc |-> svcTbl, host |-> hostTbl]

\* Database.xfr_add: started, finished and status take the column defaults.
Database_xfr_add(xfrTbl, name, added) ==
    IF XfrNameFree(xfrTbl, name)
    THEN [err |-> "", id |-> Len(xfrTbl) + 1,
          xfr |-> Append(xfrTbl, [name |-> name, added |-> added, started |-> 0,
                                  finished |-> 0, status |-> 0])]
    ELSE [err |-> "IntegrityError", id |-> -1, xfr |-> xfrTbl]

\* Database.xfr_start
Database_xfr_start(xfrTbl, id, t) ==
    IF id \notin DOMAIN xfrTbl THEN [err |-> "", xfr |-> xfrTbl]
    ELSE IF ~XfrRowCheck([xfrTbl[id] EXCEPT !.started = t])
         THEN [err |-> "IntegrityError", xfr |-> xfrTbl]
    ELSE [err |-> "", xfr |-> [xfrTbl EXCEPT ![id].started = t]]

\* Database.xfr_finish
Database_xfr_finish(xfrTbl, id, status, t) ==
    IF id \notin DOMAIN xfrTbl THEN [err |-> "", xfr |-> xfrTbl]
    ELSE IF ~XfrRowCheck([xfrTbl[id] EXCEPT !.finished = t])
         THEN [err |-> "IntegrityError", xfr |-> xfrTbl]
    ELSE [err |-> "",
          xfr |-> [xfrTbl EXCEPT ![id].finished = t,
                                 ![id].status = IF status THEN 1 ELSE 0]]

(***************************************************************************)
(* SpecStore: callers of the Database methods.                             *)
(***************************************************************************)

\* Host names, the empty one among them; addresses; provenances.
StoreNames == {<<>>, <<"a", ".", "z">>}
StoreAddrs == {1, 2}
StoreSrcs == {HostSource.Generator}
\* Ports at both ends of the valid range and just outside of it.
StorePorts == {0, 1, 65535, 65536}

NoOp == [op |-> "none", err |-> "", badPort |-> FALSE, badHost |-> FALSE, nsvc |-> 0]

StoreInit ==
    /\ now = 1
    /\ host = <<>>
    /\ svc = <<>>
    /\ xfr = <<>>
    /\ lastOp = NoOp

\* Time passes.
Tick ==
    /\ now < MaxTime
    /\ now' = now + 1
    /\ UNCHANGED <<host, svc, xfr, lastOp, readVars>>
    /\ UNCHANGED outsideStore

HostAdd(name, addr, src) ==
    /\ Len(host) < MaxHosts
    /\ LET r == Database_host_add(host, name, addr, src, now)
       IN  /\ host' = r.host
           /\ lastOp' = [NoOp EXCEPT !.op = "HostAdd", !.err = r.err]
           /\ hostObjs' = IF r.err = ""
                          THEN Append(hostObjs, [host_id |-> r.id, addr |-> addr,
                                                 name |-> name, src |-> src])
                          ELSE hostObjs
    /\ UNCHANGED <<now, svc, xfr, got>>
    /\ UNCHANGED outsideStore

\* tstamp is a time not after the present one (None stands for the present).
HostUpdateContact(host_id, tstamp) ==
    /\ LET r == Database_host_update_contact(host, host_id, tstamp)
       IN  /\ host' = r.host
           /\ lastOp' = [NoOp EXCEPT !.op = "HostUpdateContact", !.err = r.err]
    /\ UNCHANGED <<now, svc, xfr, readVars>>
    /\ UNCHANGED outsideStore

HostSetXfr(host_id) ==
    /\ host' = Database_host_set_xfr(host, host_id)
    /\ lastOp' = [NoOp EXCEPT !.op = "HostSetXfr"]
    /\ UNCHANGED <<now, svc, xfr, readVars>>
    /\ UNCHANGED outsideStore

\* The Service was constructed at `added` (scan_port: added=datetime.now()),
\* not after the insert.
ServiceAdd(host_id, port, added) ==
    /\ Len(svc) < MaxSvc
    /\ LET r == Database_service_add(host, svc, host_id, port, added, now)
       IN  /\ host' = r.host
           /\ svc' = r.svc
           /\ lastOp' = [op |-> "ServiceAdd", err |-> r.err,
                         badPort |-> (port < 1 \/ port > 65535),
                         badHost |-> (\A i \in DOMAIN host : i # host_id),
                         nsvc |-> Len(svc)]
    /\ UNCHANGED <<now, xfr, readVars>>
    /\ UNCHANGED outsideStore

StoreNext ==
    \/ Tick
    \/ \E name \in StoreNames, addr \in StoreAddrs, src \in StoreSrcs :
          HostAdd(name, addr, src)
    \/ \E host_id \in 0 .. MaxHosts, tstamp \in 1 .. now :
          HostUpdateContact(host_id, tstamp)
    \/ \E host_id \in 1 .. MaxHosts : HostSetXfr(host_id)
    \/ \E host_id \in 1 .. (MaxHosts + 1), port \in StorePorts, added \in 1 .. now :
          ServiceAdd(host_id, port, added)

StoreIdle ==
    /\ now = 1
    /\ host = <<>>
    /\ svc = <<>>
    /\ xfr = <<>>
    /\ lastOp = NoOp

(***************************************************************************)
(* database.py: the queries that read table host.                          *)
(***************************************************************************)

RandBits == 3       \* width of RANDOM() (sqlite's has 64 bits)
MinRand == 0 - Pow2(RandBits - 1)
Randoms == MinRand .. (Pow2(RandBits - 1) - 1)

\* str(host.addr), the text bound to column addr: the digits of the address,
\* most significant first.
RECURSIVE Digits(_, _)
Digits(a, n) == IF n = 0 THEN <<>> ELSE Digits(a \div 2, n - 1) \o <<a % 2>>
str_addr(a) == Digits(a, AddrBits)

\* ip_address(text)
RECURSIVE ip_address(_)
ip_address(text) ==
    IF text = <<>> THEN 0
    ELSE 2 * ip_address(SubSeq(text, 1, Len(text) - 1)) + text[Len(text)]

\* HostSource(value): the member with that value.
HostSource_of(value) ==
    CHOOSE v \in {HostSource[k] : k \in DOMAIN HostSource} : v = value

\* maybe_timestamp
maybe_timestamp(ts) == IF ts = Null THEN Null ELSE ts

\* The columns of one row of host in the order of qdb[Query.HostGetAll]:
\* id, addr, src, name, added, last_contact, sysname, location, xfr.
HostGetAllRow(hostTbl, i) ==
    <<i, str_addr(hostTbl[i].addr), hostTbl[i].src, hostTbl[i].name,
      hostTbl[i].added, hostTbl[i].last_contact, "", "", hostTbl[i].xfr>>

\* ... and in the order of qdb[Query.HostGetRandom]:
\* id, addr, name, src, added, last_contact, sysname, location, xfr.
HostGetRandomRow(hostTbl, i) ==
    <<i, str_addr(hostTbl[i].addr), hostTbl[i].name, hostTbl[i].src,
      hostTbl[i].added, hostTbl[i].last_contact, "", "", hostTbl[i].xfr>>

\* host_get_all: the Host built from a row.
HostFromAllRowNoId(row) ==
    [host_id |-> -1, addr |-> ip_address(row[2]), src |-> HostSource_of(row[3]),
     name |-> row[4], added |-> row[5], last_contact |-> maybe_timestamp(row[6]),
     xfr |-> (row[9] # 0)]

HostFromAllRow(row) ==
    [host_id |-> row[1], addr |-> ip_address(row[2]), src |-> HostSource_of(row[3]),
     name |-> row[4], added |-> row[5], last_contact |-> maybe_timestamp(row[6]),
     xfr |-> (row[9] # 0)]

\* host_get_random: the Host built from a row.
HostFromRandomRow(row) ==
    [host_id |-> row[1], addr |-> ip_address(row[2]), name |-> row[3],
     src |-> HostSource_of(row[4]), added |-> row[5],
     last_contact |-> maybe_timestamp(row[6]), xfr |-> (row[9] # 0)]

\* Database.host_get_all: every row, in the order of the ids.
Database_host_get_all(hostTbl) ==
    [i \in DOMAIN hostTbl |-> HostFromAllRow(HostGetAllRow(hostTbl, i))]

\* ORDER BY COALESCE(last_contact, 0) DESC: the ids in that order, rows with
\* equal keys in the order of their ids.
ContactKey(row) == IF row.last_contact = Null THEN 0 ELSE row.last_contact
OrderByContact(hostTbl) ==
    CHOOSE p \in [DOMAIN hostTbl -> DOMAIN hostTbl] :
        /\ \A i, j \in DOMAIN hostTbl : i # j => p[i] # p[j]
        /\ \A i, j \in DOMAIN hostTbl :
              i < j => \/ ContactKey(hostTbl[p[i]]) > ContactKey(hostTbl[p[j]])
                       \/ /\ ContactKey(hostTbl[p[i]]) = ContactKey(hostTbl[p[j]])
                          /\ p[i] < p[j]

\* ABS(x) of sqlite: the smallest integer has no absolute value ("integer
\* overflow").
SqlAbsOverflows(x) == x = MinRand
SqlAbs(x) == IF x < 0 THEN 0 - x ELSE x

\* OFFSET ABS(RANDOM()) % MAX((SELECT COUNT(*) FROM host), 1)
RandomOffset(hostTbl, rnd) ==
    SqlAbs(rnd) % (IF Len(hostTbl) > 1 THEN Len(hostTbl) ELSE 1)

\* Database.host_get_random, RANDOM() having answered rnd.
Database_host_get_random(hostTbl, cnt, rnd) ==
    IF cnt <= 0 THEN [err |-> "AssertionError", hosts |-> <<>>]
    ELSE IF SqlAbsOverflows(rnd) THEN [err |-> "OperationalError", hosts |-> <<>>]
    ELSE LET p == OrderByContact(hostTbl)
             first == RandomOffset(hostTbl, rnd) + 1
             last == IF first + cnt - 1 < Len(hostTbl)
                     THEN first + cnt - 1 ELSE Len(hostTbl)
         IN  [err |-> "",
              hosts |-> [k \in 1 .. (last - first + 1) |->
                            HostFromRandomRow(HostGetRandomRow(hostTbl, p[first + k - 1]))]]

NoGot == [cnt |-> 0, hosts |-> <<>>]

ReadInit ==
    /\ hostObjs = <<>>
    /\ got = NoGot

HostGetAll ==
    /\ got' = [cnt |-> 0, hosts |-> Database_host_get_all(host)]
    /\ lastOp' = [NoOp EXCEPT !.op = "HostGetAll"]
    /\ UNCHANGED <<now, host, svc, xfr, hostObjs>>
    /\ UNCHANGED outsideStore

HostGetRandom(cnt, rnd) ==
    /\ LET r == Database_host_get_random(host, cnt, rnd)
       IN  /\ got' = [cnt |-> cnt, hosts |-> r.hosts]
           /\ lastOp' = [NoOp EXCEPT !.op = "HostGetRandom", !.err = r.err]
    /\ UNCHANGED <<now, host, svc, xfr, hostObjs>>
    /\ UNCHANGED outsideStore

\* Writers and readers of table host.
ReadNext ==
    \/ \E name \in StoreNames, addr \in StoreAddrs, src \in StoreSrcs :
          HostAdd(name, addr, src)
    \/ \E host_id \in 1 .. MaxHosts, port \in {MinPort, MaxPort}, added \in 1 .. now :
          ServiceAdd(host_id, port, added)
    \/ HostGetAll
    \/ \E cnt \in 0 .. MaxHosts, rnd \in Randoms : HostGetRandom(cnt, rnd)

(***************************************************************************)
(* xfr.py: XFRProcessor._feeder and XFRClient.perform_xfr.                 *)
(***************************************************************************)

XfrCallers == {1, 2}
Zones == {<<"y">>, <<"z">>}
MaxNs == 2          \* name servers an NS lookup answers with

\* What a zone transfer can deliver: the A/AAAA records of the zone's regular
\* nodes in the order of zone.nodes, each a node name and an address.
ZoneContents ==
    { <<>>,
      <<[label |-> <<"w">>, addr |-> 2], [label |-> <<"p", "p">>, addr |-> 3]>>,
      <<[label |-> <<"w">>, addr |-> 0], [label |-> <<"v">>, addr |-> 2],
        [label |-> <<"m">>, addr |-> 3]>> }

\* The answers of the two blacklists of an XFRClient; both start as the default
\* lists, and an answer does not depend on the hit counts or the order.
XfrNameBlacklisted(name) ==
    NameBlacklist_is_match(NameBlacklist_from_list(forbidden_names), name).ret
XfrNetBlacklisted(addr) ==
    IPBlacklist_is_match(IPBlacklist_from_list(forbidden_networks), addr).ret

\* _process_node without the test of the address against the network
\* blacklist.
ProcessRecordAnyAddr(hostTbl, zone, rec, t) ==
    LET full == rec.label \o <<".">> \o zone
    IN  IF \/ XfrNameBlacklisted(rec.label)
           \/ XfrNameBlacklisted(full)
        THEN hostTbl
        ELSE Database_host_add(hostTbl, full, rec.addr, HostSource.XFR, t).host
\* attempt_xfr / _process_node on one record: a node whose name is
\* blacklisted is skipped, and so is a blacklisted address or full name; a
\* Host with src=XFR is added and an IntegrityError is swallowed.
ProcessRecord(hostTbl, zone, rec, t) ==
    LET full == rec.label \o <<".">> \o zone
    IN  IF \/ XfrNameBlacklisted(rec.label)
           \/ XfrNetBlacklisted(rec.addr)
           \/ XfrNameBlacklisted(full)
        THEN hostTbl
        ELSE Database_host_add(hostTbl, full, rec.addr, HostSource.XFR, t).host

RECURSIVE ProcessRecords(_, _, _, _)
ProcessRecords(hostTbl, zone, recs, t) ==
    IF recs = <<>> THEN hostTbl
    ELSE ProcessRecords(ProcessRecord(hostTbl, zone, Head(recs), t), zone, Tail(recs), t)

\* Host.zone: zone_pat = ^[^.]+[.](.*)$, what follows the first dot of a name
\* that has something other than a dot before it; "" for any other name.
Host_zone(name) ==
    LET dots == {k \in DOMAIN name : name[k] = "."}
    IN  IF dots = {} THEN <<>>
        ELSE LET d == CHOOSE k \in dots : \A j \in dots : k <= j
             IN  IF d = 1 THEN <<>> ELSE SubSeq(name, d + 1, Len(name))
\* XFR(name=z): added is the time of construction, no row id yet.
NewXFR(name, t) == [name |-> name, added |-> t, zone_id |-> -1]
NoXFR == [name |-> <<>>, added |-> 0, zone_id |-> -1]

XfrInit ==
    /\ feederPc = "poll"
    /\ xpc = [c \in XfrCallers |-> "idle"]
    /\ xobj = [c \in XfrCallers |-> NoXFR]
    /\ xns = [c \in XfrCallers |-> 0]
    /\ xlog = <<>>

\* _feeder, first statement of the loop: host_get_no_xfr executes
\* qdb[Query.HostGetNoXFR], whose select list ends in a comma before FROM, so
\* sqlite3 raises OperationalError; the feeder has no handler for it and ends.
FeederPoll ==
    /\ feederPc = "poll"
    /\ feederPc' = "crashed"
    /\ UNCHANGED <<xpc, xobj, xns, xlog, storeVars>>
    /\ UNCHANGED outsideXfr

\* A caller (an XFR worker, or a user of the XFRClient) constructs an XFR for a
\* zone and calls perform_xfr.
PerformXfr(c, zone) ==
    /\ xpc[c] = "idle"
    /\ Len(xfr) < MaxXfr
    /\ xobj' = [xobj EXCEPT ![c] = NewXFR(zone, now)]
    /\ xpc' = [xpc EXCEPT ![c] = "add"]
    /\ UNCHANGED <<feederPc, xns, xlog, storeVars>>
    /\ UNCHANGED outsideXfr

\* perform_xfr: db.xfr_add(xfr). An IntegrityError is no DBError and leaves
\* perform_xfr as an exception.
PerformXfrAdd(c) ==
    /\ xpc[c] = "add"
    /\ LET r == Database_xfr_add(xfr, xobj[c].name, xobj[c].added)
       IN  /\ xfr' = r.xfr
           /\ lastOp' = [NoOp EXCEPT !.op = "XfrAdd", !.err = r.err]
           /\ IF r.err = ""
              THEN /\ xobj' = [xobj EXCEPT ![c].zone_id = r.id]
                   /\ xlog' = Append(xlog, <<"added">>)
                   /\ xpc' = [xpc EXCEPT ![c] = "lookup"]
              ELSE /\ xpc' = [xpc EXCEPT ![c] = "raised"]
                   /\ UNCHANGED <<xobj, xlog>>
    /\ UNCHANGED <<feederPc, xns, now, host, svc>>
    /\ UNCHANGED outsideXfr

\* perform_xfr: lookup_ns answers with n name servers; with none perform_xfr
\* returns False.
PerformXfrLookup(c, n) ==
    /\ xpc[c] = "lookup"
    /\ xns' = [xns EXCEPT ![c] = n]
    /\ xpc' = [xpc EXCEPT ![c] = IF n = 0 THEN "returned" ELSE "try"]
    /\ UNCHANGED <<feederPc, xobj, xlog, storeVars>>
    /\ UNCHANGED outsideXfr

\* perform_xfr: the next name server does not resolve (continue), or the
\* transfer from it fails (attempt_xfr returns False).
PerformXfrMiss(c) ==
    /\ xpc[c] = "try"
    /\ xns' = [xns EXCEPT ![c] = @ - 1]
    /\ xpc' = [xpc EXCEPT ![c] = IF xns[c] = 1 THEN "returned" ELSE "try"]
    /\ UNCHANGED <<feederPc, xobj, xlog, storeVars>>
    /\ UNCHANGED outsideXfr

\* perform_xfr: resolve_name of the next name server raises a DNS exception
\* other than NXDOMAIN; neither resolve_name nor perform_xfr handles it.
PerformXfrDnsError(c) ==
    /\ xpc[c] = "try"
    /\ xns' = [xns EXCEPT ![c] = 0]
    /\ xpc' = [xpc EXCEPT ![c] = "raised"]
    /\ UNCHANGED <<feederPc, xobj, xlog, storeVars>>
    /\ UNCHANGED outsideXfr

\* perform_xfr: the transfer from the next name server succeeds; attempt_xfr
\* stores the zone's hosts, xfr_finish(xfr, True) marks the row and the loop
\* ends.
PerformXfrOk(c, recs) ==
    /\ xpc[c] = "try"
    /\ LET r == Database_xfr_finish(xfr, xobj[c].zone_id, TRUE, now)
       IN  /\ host' = ProcessRecords(host, xobj[c].name, recs, now)
           /\ xfr' = r.xfr
           /\ lastOp' = [NoOp EXCEPT !.op = "XfrFinish", !.err = r.err]
           /\ xlog' = IF r.err = ""
                      THEN [xlog EXCEPT ![xobj[c].zone_id] = Append(@, "finished")]
                      ELSE xlog
    /\ xns' = [xns EXCEPT ![c] = 0]
    /\ xpc' = [xpc EXCEPT ![c] = "returned"]
    /\ UNCHANGED <<feederPc, xobj, now, svc>>
    /\ UNCHANGED outsideXfr

\* _worker: perform_xfr returned, the worker takes the next request.
PerformXfrEnd(c) ==
    /\ xpc[c] = "returned"
    /\ xpc' = [xpc EXCEPT ![c] = "idle"]
    /\ xobj' = [xobj EXCEPT ![c] = NoXFR]
    /\ UNCHANGED <<feederPc, xns, xlog, storeVars>>
    /\ UNCHANGED outsideXfr

\* _worker: perform_xfr raised. The worker's only handler around it is
\* `except Empty`, so the exception ends the loop and the thread (finally:
\* wcnt -= 1).
WorkerDies(c) ==
    /\ xpc[c] = "raised"
    /\ xpc' = [xpc EXCEPT ![c] = "dead"]
    /\ xobj' = [xobj EXCEPT ![c] = NoXFR]
    /\ UNCHANGED <<feederPc, xns, xlog, storeVars>>
    /\ UNCHANGED outsideXfr

XfrIdle ==
    /\ feederPc = "off"
    /\ xpc = <<>>
    /\ xobj = <<>>
    /\ xns = <<>>
    /\ xlog = <<>>

XfrNext ==
    \/ Tick
    \/ FeederPoll
    \/ \E c \in XfrCallers, zone \in Zones : PerformXfr(c, zone)
    \/ \E c \in XfrCallers : PerformXfrAdd(c)
    \/ \E c \in XfrCallers, n \in 0 .. MaxNs : PerformXfrLookup(c, n)
    \/ \E c \in XfrCallers : PerformXfrMiss(c)
    \/ \E c \in XfrCallers : PerformXfrDnsError(c)
    \/ \E c \in XfrCallers, recs \in ZoneContents : PerformXfrOk(c, recs)
    \/ \E c \in XfrCallers : PerformXfrEnd(c)
    \/ \E c \in XfrCallers : WorkerDies(c)

(***************************************************************************)
(* scanner.py: Scanner._select_port.                                       *)
(***************************************************************************)

interesting_ports ==
    <<21, 22, 23, 25, 53, 79, 80, 110, 143, 161, 220, 389, 443, 1433, 3270,
      3306, 5432, 6379, 5900, 8080, 9023>>
\* The ports tried first for a host that was found as a mail exchanger.
MxPorts == <<25, 110, 143, 587>>
DnsPort == 53
NoPort == 0         \* _select_port returns None

\* Database.service_get_by_host: the services of the host, ORDER BY port.
RECURSIVE AscendingByPort(_)
AscendingByPort(rows) ==
    IF rows = {} THEN <<>>
    ELSE LET m == CHOOSE r \in rows : \A q \in rows : r.port <= q.port
         IN  <<m>> \o AscendingByPort(rows \ {m})

Database_service_get_by_host(svcTbl, host_id) ==
    AscendingByPort({r \in Range(svcTbl) : r.host_id = host_id})

\* `for p in list: if p not in ports: return ScanRequest(port=p)`: the first
\* port of the list that is not in ports, NoPort when the loop falls through.
FirstOfList(list, ports) == IF list = <<>> THEN NoPort ELSE list[1]

FirstNotIn(list, ports) ==
    LET free == {i \in DOMAIN list : list[i] \notin ports}
    IN  IF free = {} THEN NoPort
        ELSE list[CHOOSE i \in free : \A j \in free : i <= j]

\* "We've exhausted all our options": return None.
ExhaustedPicksLowest(ports) == 1
Exhausted(ports) == NoPort

\* _select_port without the `match host.src`: the permutation alone decides.
SelectPortAnySrc(svcTbl, h, plist) ==
    LET services == Database_service_get_by_host(svcTbl, h.host_id)
        ports == {services[i].port : i \in DOMAIN services}
    IN  IF FirstNotIn(plist, ports) # NoPort THEN FirstNotIn(plist, ports)
        ELSE Exhausted(ports)
\* Scanner._select_port, random.sample having answered plist.
Scanner_select_port(svcTbl, h, plist) ==
    LET services == Database_service_get_by_host(svcTbl, h.host_id)
        ports == {services[i].port : i \in DOMAIN services}
        special == IF h.src = HostSource.MX THEN FirstNotIn(MxPorts, ports)
                   ELSE IF h.src = HostSource.NS THEN FirstNotIn(<<DnsPort>>, ports)
                   ELSE NoPort
    IN  IF special # NoPort THEN special
        ELSE IF FirstNotIn(plist, ports) # NoPort THEN FirstNotIn(plist, ports)
        ELSE Exhausted(ports)

\* Permutations random.sample(interesting_ports, len(interesting_ports)) can
\* answer with: the rotations of the list and of its reverse.
Rotate(list, k) == [i \in DOMAIN list |-> list[((i + k - 1) % Len(list)) + 1]]
Reverse(list) == [i \in DOMAIN list |-> list[Len(list) + 1 - i]]
MaxRotate == 1
PlistPool ==
    {Rotate(interesting_ports, k) : k \in 0 .. MaxRotate}
        \cup {Rotate(Reverse(interesting_ports), k) : k \in 0 .. MaxRotate}

\* Sets of ports a host has services stored for.
StoredPortSets ==
    LET P == Range(interesting_ports)
        M == Range(MxPorts)
    IN  {{}, {DnsPort}, {21, 9023}, M, M \ {587}, P, P \cup M, P \ {DnsPort},
         (P \cup M) \ {8080}, (P \cup M) \ {25}, P \ {21, 22}}

\* The svc table that holds the given ports for host 1.
RECURSIVE SvcTableOf(_, _)
SvcTableOf(ports, t) ==
    IF ports = {} THEN <<>>
    ELSE LET m == CHOOSE q \in ports : \A r \in ports : q >= r
         IN  Append(SvcTableOf(ports \ {m}, t), [host_id |-> 1, port |-> m, added |-> t])

NoSelect == [host_id |-> 0, src |-> 0, plist |-> <<>>, port |-> NoPort, called |-> FALSE]

ScanIdle ==
    /\ selected = NoSelect
    /\ scActive = FALSE
    /\ wcnt = 0
    /\ scanQ = <<>>
    /\ resQ = <<>>
    /\ sfpc = "off"
    /\ fhosts = <<>>
    /\ wpc = <<>>
    /\ gthPc = "off"
    /\ probes = <<>>

\* A store with one host of some provenance, and services of it.
SelectInit ==
    /\ now = 1
    /\ \E src \in {HostSource.Generator, HostSource.MX, HostSource.NS},
          ports \in StoredPortSets :
          /\ host = <<[name |-> <<"a", ".", "z">>, addr |-> 1, src |-> src,
                       added |-> 1,
                       last_contact |-> IF ports = {} THEN Null ELSE 1,
                       xfr |-> 0]>>
          /\ svc = SvcTableOf(ports, 1)
    /\ xfr = <<>>
    /\ lastOp = NoOp
    /\ ScanIdle

\* The Host objects a query of table host answers with.
StoredHosts == Range(Database_host_get_all(host))

\* _feeder: _select_port for a host that host_get_random returned.
SelectPort(h, plist) ==
    /\ selected' = [host_id |-> h.host_id, src |-> h.src, plist |-> plist,
                    port |-> Scanner_select_port(svc, h, plist), called |-> TRUE]
    /\ UNCHANGED <<storeVars, threadVars>>
    /\ UNCHANGED outsideScan

SelectNext ==
    \/ \E h \in StoredHosts, plist \in PlistPool : SelectPort(h, plist)

(***************************************************************************)
(* scanner.py: the threads of a started Scanner.                           *)
(***************************************************************************)

ScanWorkers == {1, 2}
MaxProbes == 1      \* scan_port calls recorded
MaxResults == 2     \* ScanResults waiting on resQ at the beginning

\* scan_port, the match on req.port: the method that probes the port.
ProbeOf(port) ==
    IF port \in {21, 22, 25, 110, 143, 220} THEN "scan_tcp_generic"
    ELSE IF port \in {80, 443, 8080} THEN "scan_http"
    ELSE IF port = 79 THEN "scan_finger"
    ELSE IF port \in {23, 3270, 9023} THEN "scan_telnet"
    ELSE "none"

\* What a probe can end with: the port answers (reply.status), it does not
\* (ConnectionError, handled by the probe), the probe times out, or it raises
\* what neither the probe nor scan_port handles (an OSError such as "no route
\* to host", a KeyError for a missing Server header).
Outcomes == {"open", "closed", "timeout", "error"}

\* scan_port: the ScanResult, or none.
NoResult == [host_id |-> 0, port |-> NoPort, added |-> 0]
Scanner_scan_port(req, outcome, t) ==
    IF ProbeOf(req.port) # "none" /\ outcome = "open"
    THEN [host_id |-> req.host_id, port |-> req.port, added |-> t]
    ELSE NoResult

\* `if res is None: pass`: what the worker does with the result of scan_port.
WorkerForwards(q, res) == q

\* Stores with one host, of some provenance and with some services.
ScanStoredSets == {{}, {DnsPort}, {21}}

ThreadsInit ==
    /\ selected = NoSelect
    /\ scActive = TRUE
    /\ wcnt = Cardinality(ScanWorkers)
    /\ scanQ = <<>>
    /\ sfpc = "poll"
    /\ fhosts = <<>>
    /\ wpc = [w \in ScanWorkers |-> "run"]
    /\ gthPc = "run"
    /\ probes = <<>>

StoreWithHost(sets) ==
    /\ now = 1
    /\ \E src \in {HostSource.Generator, HostSource.MX, HostSource.NS},
          ports \in sets :
          /\ host = <<[name |-> <<"a", ".", "z">>, addr |-> 1, src |-> src,
                       added |-> 1,
                       last_contact |-> IF ports = {} THEN Null ELSE 1,
                       xfr |-> 0]>>
          /\ svc = SvcTableOf(ports, 1)
    /\ xfr = <<>>
    /\ lastOp = NoOp

\* After Scanner.start().
ScanInit ==
    /\ StoreWithHost(ScanStoredSets)
    /\ ThreadsInit
    /\ resQ = <<>>

\* _feeder without `if cnt < 1: time.sleep(self.interval); continue`.
ScanFeederPollAnyCnt(rnd) ==
    /\ sfpc = "poll"
    /\ scActive
    /\ LET r == Database_host_get_random(host, wcnt, rnd)
       IN  IF r.err # ""
           THEN /\ sfpc' = "quit"
                /\ scActive' = FALSE
                /\ UNCHANGED fhosts
           ELSE /\ fhosts' = r.hosts
                /\ sfpc' = IF r.hosts = <<>> THEN "poll" ELSE "select"
                /\ UNCHANGED scActive
    /\ UNCHANGED <<selected, wcnt, scanQ, resQ, wpc, gthPc, probes, storeVars>>
    /\ UNCHANGED outsideScan
\* _feeder, top of the loop: host_get_random(wcnt), RANDOM() answering rnd. An
\* exception of the query ends the feeder (finally: scanQ.shutdown(),
\* _active = False).
ScanFeederPoll(rnd) ==
    /\ sfpc = "poll"
    /\ scActive
    /\ IF wcnt < 1
       THEN UNCHANGED <<sfpc, fhosts, scActive>>
       ELSE LET r == Database_host_get_random(host, wcnt, rnd)
            IN  IF r.err # ""
                THEN /\ sfpc' = "quit"
                     /\ scActive' = FALSE
                     /\ UNCHANGED fhosts
                ELSE /\ fhosts' = r.hosts
                     /\ sfpc' = IF r.hosts = <<>> THEN "poll" ELSE "select"
                     /\ UNCHANGED scActive
    /\ UNCHANGED <<selected, wcnt, scanQ, resQ, wpc, gthPc, probes, storeVars>>
    /\ UNCHANGED outsideScan

\* _feeder, one round of `for host in hosts`: _select_port and, with a port,
\* scanQ.put(req), which waits while the queue (of size wcnt at start) is full.
ScanFeederSelect(plist) ==
    /\ sfpc = "select"
    /\ scActive
    /\ LET h == Head(fhosts)
           port == Scanner_select_port(svc, h, plist)
       IN  IF port = NoPort
           THEN UNCHANGED scanQ
           ELSE /\ Len(scanQ) < Cardinality(ScanWorkers)
                /\ scanQ' = Append(scanQ, [host_id |-> h.host_id, port |-> port])
    /\ fhosts' = Tail(fhosts)
    /\ sfpc' = IF Tail(fhosts) = <<>> THEN "poll" ELSE "select"
    /\ UNCHANGED <<selected, scActive, wcnt, resQ, wpc, gthPc, probes, storeVars>>
    /\ UNCHANGED outsideScan

\* Scanner.stop: _active = False and the queues are shut down.
ScannerStop ==
    /\ scActive
    /\ scActive' = FALSE
    /\ UNCHANGED <<selected, wcnt, scanQ, resQ, sfpc, fhosts, wpc, gthPc, probes,
                   storeVars>>
    /\ UNCHANGED outsideScan

\* _feeder: the loop ends when the Scanner is no longer active (or scanQ.put
\* raises ShutDown).
ScanFeederQuit ==
    /\ sfpc \in {"poll", "select"}
    /\ ~scActive
    /\ sfpc' = "quit"
    /\ UNCHANGED <<selected, scActive, wcnt, scanQ, resQ, fhosts, wpc, gthPc, probes,
                   storeVars>>
    /\ UNCHANGED outsideScan

\* _scan_worker, one round with a request: scanQ.get, scan_port. An exception
\* other than Empty and ShutDown ends the worker (finally: wcnt -= 1).  The
\* history keeps the first MaxProbes calls.
ScanWorkerProbe(w, outcome) ==
    /\ wpc[w] = "run"
    /\ scActive
    /\ scanQ # <<>>
    /\ LET req == Head(scanQ)
           probed == ProbeOf(req.port) # "none"
           res == Scanner_scan_port(req, outcome, now)
       IN  /\ scanQ' = Tail(scanQ)
           /\ probes' = IF Len(probes) < MaxProbes
                        THEN Append(probes, [host_id |-> req.host_id, port |-> req.port,
                                             probe |-> ProbeOf(req.port),
                                             ok |-> res # NoResult])
                        ELSE probes
           /\ IF probed /\ outcome = "error"
              THEN /\ wpc' = [wpc EXCEPT ![w] = "quit"]
                   /\ wcnt' = wcnt - 1
                   /\ UNCHANGED resQ
              ELSE /\ resQ' = WorkerForwards(resQ, res)
                   /\ UNCHANGED <<wpc, wcnt>>
    /\ UNCHANGED <<selected, scActive, sfpc, fhosts, gthPc, storeVars>>
    /\ UNCHANGED outsideScan

\* _scan_worker: the loop ends when the Scanner is no longer active.
ScanWorkerQuit(w) ==
    /\ wpc[w] = "run"
    /\ ~scActive
    /\ wpc' = [wpc EXCEPT ![w] = "quit"]
    /\ wcnt' = wcnt - 1
    /\ UNCHANGED <<selected, scActive, scanQ, resQ, sfpc, fhosts, gthPc, probes,
                   storeVars>>
    /\ UNCHANGED outsideScan

\* _gatherer, one round with a result: resQ.get, service_add; a DBError is
\* logged and the loop goes on.
GathererStore ==
    /\ gthPc = "run"
    /\ scActive
    /\ resQ # <<>>
    /\ LET res == Head(resQ)
           r == Database_service_add(host, svc, res.host_id, res.port, res.added, now)
       IN  /\ host' = r.host
           /\ svc' = r.svc
           /\ lastOp' = [op |-> "ServiceAdd", err |-> r.err,
                         badPort |-> (res.port < 1 \/ res.port > 65535),
                         badHost |-> (\A i \in DOMAIN host : i # res.host_id),
                         nsvc |-> Len(svc)]
    /\ resQ' = Tail(resQ)
    /\ UNCHANGED <<now, xfr>>
    /\ UNCHANGED <<selected, scActive, wcnt, scanQ, sfpc, fhosts, wpc, gthPc, probes>>
    /\ UNCHANGED outsideScan

\* _gatherer: the loop ends when the Scanner is no longer active.
GathererQuit ==
    /\ gthPc = "run"
    /\ ~scActive
    /\ gthPc' = "quit"
    /\ UNCHANGED <<selected, scActive, wcnt, scanQ, resQ, sfpc, fhosts, wpc, probes,
                   storeVars>>
    /\ UNCHANGED outsideScan

\* ScanResults for the host of the store, two ports of the curated list.
ResultPool == {[host_id |-> 1, port |-> p, added |-> 1] : p \in {21, 22}}
RECURSIVE SeqsUpTo(_, _)
SeqsUpTo(S, n) ==
    IF n = 0 THEN {<<>>}
    ELSE SeqsUpTo(S, n - 1)
           \cup {Append(q, x) : q \in {r \in SeqsUpTo(S, n - 1) : Len(r) = n - 1}, x \in S}

\* A started Scanner whose resQ holds results, those of one (host, port)
\* twice among them.  Nothing in scanner.py puts them there (the scan workers
\* drop their results); they are what the gatherer is written to take.
GatherInit ==
    /\ StoreWithHost(ScanStoredSets)
    /\ ThreadsInit
    /\ resQ \in SeqsUpTo(ResultPool, MaxResults)

\* The gatherer at work on the results.
GatherNext ==
    \/ Tick
    \/ ScannerStop
    \/ GathererStore
    \/ GathererQuit

\* The threads of the Scanner. No statement of scanner.py puts anything on
\* resQ, so with the queue empty at the start the gatherer only waits.
ScanNext ==
    \/ ScannerStop
    \/ \E rnd \in Randoms : ScanFeederPoll(rnd)
    \/ \E plist \in PlistPool : ScanFeederSelect(plist)
    \/ ScanFeederQuit
    \/ \E w \in ScanWorkers, outcome \in Outcomes : ScanWorkerProbe(w, outcome)
    \/ \E w \in ScanWorkers : ScanWorkerQuit(w)
    \/ GathererQuit

(***************************************************************************)
(* cache.py: a user of one CacheDB, one transaction at a time.              *)
(***************************************************************************)

MaxTtl == 1         \* largest ttl of a CacheDB, in seconds
CacheKeys == {0, 1}
CacheTtls == 0 .. MaxTtl    \* NoExpiry: get_db without a ttl

NoTx == [open |-> FALSE, rw |-> FALSE, db |-> {}]
NoCacheOp == [op |-> "none", key |-> 0, val |-> None, found |-> FALSE, err |-> ""]

CacheIdle ==
    /\ cacheDb = [ttl |-> NoExpiry]
    /\ cacheTx = NoTx
    /\ cacheLast = NoCacheOp

\* Cache.get_db(name, ttl) on an empty environment.
CacheInit ==
    /\ \E ttl \in CacheTtls : cacheDb = [ttl |-> ttl]
    /\ cacheTx = NoTx
    /\ cacheLast = NoCacheOp
    /\ ipcache = {}

\* CacheDB.tx(rw): env.begin; the transaction works on the entries as they
\* are at its beginning.
TxBegin(rw) ==
    /\ ~cacheTx.open
    /\ cacheTx' = [open |-> TRUE, rw |-> rw, db |-> ipcache]
    /\ cacheLast' = [NoCacheOp EXCEPT !.op = "begin"]
    /\ UNCHANGED <<cacheDb, ipcache, now>>
    /\ UNCHANGED outsideCache

\* What CacheDB.tx does when the body of the `with` raises: tx.abort(), and
\* the exception goes no further.
AfterOp(err, db) ==
    IF err # "" THEN NoTx ELSE [cacheTx EXCEPT !.db = db]

\* tx[key]
TxGet(key) ==
    /\ cacheTx.open
    /\ LET r == Tx_getitem(cacheTx.db, key, cacheTx.rw, now)
       IN  /\ cacheTx' = AfterOp(r.err, r.db)
           /\ cacheLast' = [op |-> "get", key |-> key, val |-> r.ret,
                            found |-> r.ret # None, err |-> r.err]
    /\ UNCHANGED <<cacheDb, ipcache, now>>
    /\ UNCHANGED outsideCache

\* key in tx
TxContains(key) ==
    /\ cacheTx.open
    /\ LET r == Tx_contains(cacheTx.db, key, cacheTx.rw, now)
       IN  /\ cacheTx' = AfterOp("", r.db)
           /\ cacheLast' = [op |-> "contains", key |-> key, val |-> None,
                            found |-> r.ret, err |-> ""]
    /\ UNCHANGED <<cacheDb, ipcache, now>>
    /\ UNCHANGED outsideCache

\* tx[key] = "1": TxError in a read-only transaction.
TxSet(key) ==
    /\ cacheTx.open
    /\ LET err == IF cacheTx.rw THEN "" ELSE "TxError"
       IN  /\ cacheTx' = AfterOp(err, Tx_setitem(cacheTx.db, key, "1", cacheDb.ttl, now))
           /\ cacheLast' = [NoCacheOp EXCEPT !.op = "set", !.key = key, !.err = err]
    /\ UNCHANGED <<cacheDb, ipcache, now>>
    /\ UNCHANGED outsideCache

\* del tx[key]: TxError in a read-only transaction.
TxDel(key) ==
    /\ cacheTx.open
    /\ LET err == IF cacheTx.rw THEN "" ELSE "TxError"
       IN  /\ cacheTx' = AfterOp(err, Tx_delitem(cacheTx.db, key))
           /\ cacheLast' = [NoCacheOp EXCEPT !.op = "del", !.key = key, !.err = err]
    /\ UNCHANGED <<cacheDb, ipcache, now>>
    /\ UNCHANGED outsideCache

\* CacheDB.tx: the body of the `with` ends, tx.commit().
TxCommit ==
    /\ cacheTx.open
    /\ ipcache' = IF cacheTx.rw THEN cacheTx.db ELSE ipcache
    /\ cacheTx' = NoTx
    /\ cacheLast' = [NoCacheOp EXCEPT !.op = "commit"]
    /\ UNCHANGED <<cacheDb, now>>
    /\ UNCHANGED outsideCache

\* CacheDB.purge(complete), in a write transaction of its own.
CacheSweep(complete) ==
    /\ ~cacheTx.open
    /\ ipcache' = CacheDB_purge(ipcache, complete, now)
    /\ cacheLast' = [NoCacheOp EXCEPT !.op = "purge"]
    /\ UNCHANGED <<cacheDb, cacheTx, now>>
    /\ UNCHANGED outsideCache

CacheNext ==
    \/ Tick
    \/ \E rw \in BOOLEAN : TxBegin(rw)
    \/ \E key \in CacheKeys : TxGet(key)
    \/ \E key \in CacheKeys : TxContains(key)
    \/ \E key \in CacheKeys : TxSet(key)
    \/ \E key \in CacheKeys : TxDel(key)
    \/ TxCommit
    \/ \E complete \in BOOLEAN : CacheSweep(complete)

(***************************************************************************)
(* generator.py, xfr.py, scanner.py: the pools and their threads.  What a  *)
(* thread does in one round of its loop is modelled above; here a round is  *)
(* what it does to the pool: it goes on, or it ends the thread.             *)
(***************************************************************************)

PoolWcnt     == 1   \* wcnt a pool operated on its own is constructed with
NexusWcnt    == 1   \* wcnt of each pool of a Nexus
MaxPoolCalls == 4   \* calls of the control methods of one pool
MaxNexusLog  == 6   \* pool methods the Nexus calls

\* control.py
Cmd == [Start |-> "Start", Stop |-> "Stop", Pause |-> "Pause",
        StartOne |-> "StartOne", StopOne |-> "StopOne"]
Facility == [Generator |-> "Generator", XFR |-> "XFR", Scanner |-> "Scanner"]
Facilities == {Facility.Generator, Facility.XFR, Facility.Scanner}

\* Message(Tag, Payload): the payload is <<>> for None and <<s>> for a number s.
Message(tag, payload) == [Tag |-> tag, Payload |-> payload]
IsNumber(payload) == payload # <<>>
Payloads == {<<>>, <<1>>}

\* Where a worker thread is: at the loop test (`while self.active`), at the
\* poll of cmdQ (the round follows it), asleep on a Pause, on its way out after
\* a Stop (quit) or for another reason (fin), both with `finally: wcnt -= 1`
\* ahead, and ended after a Stop (stopped) or otherwise (done).
WorkerPcs == {"top", "cmd", "sleep", "quit", "fin", "stopped", "done"}
AuxRoles == {"host_worker", "feeder", "gatherer"}

Max0(n) == IF n < 0 THEN 0 ELSE n

\* A pool as __post_init__ leaves it: cmdQ is Queue(wcnt), in the Scanner
\* Queue(wcnt * 2); Queue(0) has no limit.  lock is set while a stop_one
\* waits inside `with self.lock` for room on cmdQ, put is the number of Stop
\* messages a stop() or a Scanner.stop_one still waits to put.  hist is
\* history: the number of calls of the control methods, whether the last of
\* start() and stop() was a start() or a stop() of the started pool, and
\* whether there was a stop() at all.
NewPool(f, n) ==
    [built |-> TRUE, active |-> FALSE, wcnt |-> n,
     cmdCap |-> IF f = Facility.Scanner THEN n * 2 ELSE n,
     cmdQ |-> <<>>, shut |-> {},
     wk |-> [pc \in WorkerPcs |-> 0],
     ax |-> [r \in AuxRoles |-> [run |-> 0, done |-> 0]],
     lock |-> FALSE, put |-> 0,
     hist |-> [n |-> 0, run |-> "new", stops |-> FALSE]]
NoPool == [NewPool(Facility.Generator, 0) EXCEPT !.built = FALSE]

HasRoom(p) == p.cmdCap = 0 \/ Len(p.cmdQ) < p.cmdCap
Room(p, n) == IF p.cmdCap = 0 THEN n
              ELSE IF p.cmdCap - Len(p.cmdQ) < n THEN Max0(p.cmdCap - Len(p.cmdQ))
              ELSE n

\* n times cmdQ.put(Message(Tag=Cmd.Stop)): put waits while the queue is full.
PutStops(p, n) ==
    LET k == Room(p, n)
    IN  [p EXCEPT !.cmdQ = @ \o [i \in 1 .. k |-> Message(Cmd.Stop, <<>>)],
                  !.put = @ + (n - k)]

Workers(p) == p.wk["top"] + p.wk["cmd"] + p.wk["sleep"] + p.wk["quit"] + p.wk["fin"]
Started(p) == Workers(p) + p.wk["stopped"] + p.wk["done"]
Move(p, from, to) == [p EXCEPT !.wk[from] = @ - 1, !.wk[to] = @ + 1]

\* ParallelGenerator.start
ParallelGenerator_start(p) ==
    [p EXCEPT !.active = TRUE,
              !.ax["host_worker"].run = @ + 1,
              !.wk["top"] = @ + Max0(p.wcnt)]

\* ParallelGenerator.stop
ParallelGenerator_stop(p) ==
    IF ~p.active THEN p
    ELSE PutStops([p EXCEPT !.active = FALSE], Max0(p.wcnt))

\* ParallelGenerator.start_one
ParallelGenerator_start_one(p) ==
    IF ~p.active THEN p
    ELSE [p EXCEPT !.wk["top"] = @ + 1, !.wcnt = @ + 1]

\* stop_one inside `with self.lock`, once cmdQ has room: the put and
\* `if self.wcnt == 1: self._active = False`.
StopOnePut(p) ==
    [p EXCEPT !.cmdQ = Append(@, Message(Cmd.Stop, <<>>)),
              !.active = IF p.wcnt = 1 THEN FALSE ELSE @,
              !.lock = FALSE]

\* ParallelGenerator.stop_one
ParallelGenerator_stop_one(p) ==
    IF ~p.active THEN p
    ELSE IF HasRoom(p) THEN StopOnePut(p)
    ELSE [p EXCEPT !.lock = TRUE]

\* XFRProcessor.start: start_one is called wcnt times, and each call adds one
\* to wcnt.
XFRProcessor_start(p) ==
    [p EXCEPT !.active = TRUE,
              !.ax["feeder"].run = @ + 1,
              !.wk["top"] = @ + Max0(p.wcnt),
              !.wcnt = @ + Max0(p.wcnt)]

\* XFRProcessor.stop
XFRProcessor_stop(p) ==
    IF ~p.active THEN p
    ELSE PutStops([p EXCEPT !.active = FALSE], Max0(p.wcnt))

\* XFRProcessor.start_one
XFRProcessor_start_one(p) ==
    IF ~p.active THEN p
    ELSE [p EXCEPT !.wk["top"] = @ + 1, !.wcnt = @ + 1]

\* XFRProcessor.stop_one
XFRProcessor_stop_one(p) ==
    IF ~p.active THEN p
    ELSE IF HasRoom(p) THEN StopOnePut(p)
    ELSE [p EXCEPT !.lock = TRUE]

\* Scanner.start
Scanner_start(p) ==
    [p EXCEPT !.active = TRUE,
              !.ax["feeder"].run = @ + 1,
              !.ax["gatherer"].run = @ + 1,
              !.wk["top"] = @ + Max0(p.wcnt)]

\* Scanner.stop
Scanner_stop(p) ==
    [p EXCEPT !.active = FALSE, !.shut = @ \cup {"scanQ", "resQ", "cmdQ"}]

\* Scanner.start_one
Scanner_start_one(p) == [p EXCEPT !.wk["top"] = @ + 1]

\* Scanner.stop_one: the put is outside the lock; on a queue that is shut
\* down it raises ShutDown to the caller.
Scanner_stop_one(p) ==
    IF p.wcnt < 1 \/ ~p.active THEN p
    ELSE IF "cmdQ" \in p.shut THEN p
    ELSE PutStops(p, 1)

\* The method of facility f.
Pool_start(f, p) ==
    IF f = Facility.Generator THEN ParallelGenerator_start(p)
    ELSE IF f = Facility.XFR THEN XFRProcessor_start(p)
    ELSE Scanner_start(p)
Pool_stop(f, p) ==
    IF f = Facility.Generator THEN ParallelGenerator_stop(p)
    ELSE IF f = Facility.XFR THEN XFRProcessor_stop(p)
    ELSE Scanner_stop(p)
Pool_start_one(f, p) ==
    IF f = Facility.Generator THEN ParallelGenerator_start_one(p)
    ELSE IF f = Facility.XFR THEN XFRProcessor_start_one(p)
    ELSE Scanner_start_one(p)
Pool_stop_one(f, p) ==
    IF f = Facility.Generator THEN ParallelGenerator_stop_one(p)
    ELSE IF f = Facility.XFR THEN XFRProcessor_stop_one(p)
    ELSE Scanner_stop_one(p)

(***************************************************************************)
(* The callers of the control methods and the threads of the pools.        *)
(***************************************************************************)

Called(p, name) ==
    [p EXCEPT !.hist.n = @ + 1,
              !.hist.run = IF name = "start" THEN "started"
                           ELSE IF name = "stop" /\ @ = "started" THEN "stopped"
                           ELSE @,
              !.hist.stops = @ \/ name = "stop"]

\* A control method can be entered: the pool exists and its lock is free.
CanCall(f) ==
    /\ pools[f].built
    /\ ~pools[f].lock
    /\ pools[f].hist.n < MaxPoolCalls

PoolStart(f) ==
    /\ CanCall(f)
    /\ pools' = [pools EXCEPT ![f] = Called(Pool_start(f, @), "start")]
    /\ UNCHANGED <<nx, nxCalls>>
    /\ UNCHANGED outsidePool

PoolStop(f) ==
    /\ CanCall(f)
    /\ pools' = [pools EXCEPT ![f] = Called(Pool_stop(f, @), "stop")]
    /\ UNCHANGED <<nx, nxCalls>>
    /\ UNCHANGED outsidePool

PoolStartOne(f) ==
    /\ CanCall(f)
    /\ pools' = [pools EXCEPT ![f] = Called(Pool_start_one(f, @), "start_one")]
    /\ UNCHANGED <<nx, nxCalls>>
    /\ UNCHANGED outsidePool

PoolStopOne(f) ==
    /\ CanCall(f)
    /\ pools' = [pools EXCEPT ![f] = Called(Pool_stop_one(f, @), "stop_one")]
    /\ UNCHANGED <<nx, nxCalls>>
    /\ UNCHANGED outsidePool

\* Somebody puts Message(Tag=Cmd.Pause, Payload=payload) on cmdQ.
SendPause(f, payload) ==
    /\ pools[f].built
    /\ pools[f].hist.n < MaxPoolCalls
    /\ HasRoom(pools[f])
    /\ "cmdQ" \notin pools[f].shut
    /\ pools' = [pools EXCEPT ![f] =
                    Called([@ EXCEPT !.cmdQ = Append(@, Message(Cmd.Pause, payload))],
                           "pause")]
    /\ UNCHANGED <<nx, nxCalls>>
    /\ UNCHANGED outsidePool

\* stop() or Scanner.stop_one, waiting in cmdQ.put: the queue has room again,
\* or it was shut down and put raises ShutDown.
StopPut(f) ==
    /\ pools[f].put > 0
    /\ IF "cmdQ" \in pools[f].shut
       THEN pools' = [pools EXCEPT ![f].put = 0]
       ELSE /\ HasRoom(pools[f])
            /\ pools' = [pools EXCEPT ![f].cmdQ = Append(@, Message(Cmd.Stop, <<>>)),
                                      ![f].put = @ - 1]
    /\ UNCHANGED <<nx, nxCalls>>
    /\ UNCHANGED outsidePool

\* stop_one of the ParallelGenerator or the XFRProcessor, waiting in cmdQ.put
\* with the lock held: the queue has room again.
StopOneResume(f) ==
    /\ pools[f].lock
    /\ HasRoom(pools[f])
    /\ pools' = [pools EXCEPT ![f] = StopOnePut(@)]
    /\ UNCHANGED <<nx, nxCalls>>
    /\ UNCHANGED outsidePool

\* A worker, `while self.active`: the property takes the lock.
WorkerLoopTest(f) ==
    /\ pools[f].wk["top"] > 0
    /\ ~pools[f].lock
    /\ pools' = [pools EXCEPT ![f] =
                    Move(@, "top", IF pools[f].active THEN "cmd" ELSE "fin")]
    /\ UNCHANGED <<nx, nxCalls>>
    /\ UNCHANGED outsidePool

\* _gen_worker after the poll of cmdQ: generate_host and hostQ.put, which
\* raises ShutDown once hostQ is shut down.
GenWork(p, from) ==
    Move(p, from, IF "hostQ" \in p.shut THEN "fin" ELSE "top")

\* _gen_worker, one round: cmdQ.get(False); Stop returns, Pause sleeps for
\* time.sleep(message.Payload), which raises TypeError unless the payload is a
\* number.
GenWorkerRound ==
    LET f == Facility.Generator
        p == pools[f]
        q == [p EXCEPT !.cmdQ = Tail(@)]
    IN  /\ p.wk["cmd"] > 0
        /\ pools' = [pools EXCEPT ![f] =
              IF p.cmdQ = <<>> THEN GenWork(p, "cmd")
              ELSE IF Head(p.cmdQ).Tag = Cmd.Stop THEN Move(q, "cmd", "quit")
              ELSE IF Head(p.cmdQ).Tag = Cmd.Pause
                   THEN Move(q, "cmd", IF IsNumber(Head(p.cmdQ).Payload)
                                       THEN "sleep" ELSE "fin")
              ELSE GenWork(q, "cmd")]
        /\ UNCHANGED <<nx, nxCalls>>
        /\ UNCHANGED outsidePool

\* _gen_worker: the sleep of a Pause is over, the round goes on.
GenWorkerWake ==
    /\ pools[Facility.Generator].wk["sleep"] > 0
    /\ pools' = [pools EXCEPT ![Facility.Generator] = GenWork(@, "sleep")]
    /\ UNCHANGED <<nx, nxCalls>>
    /\ UNCHANGED outsidePool

\* XFRProcessor._worker, one round: cmdQ.get(False); Stop returns, Pause
\* sleeps if the payload is a number; then requestQ.get, which times out: the
\* feeder ends before it puts anything (FeederPoll).
XfrWorkerRound ==
    LET f == Facility.XFR
        p == pools[f]
        q == [p EXCEPT !.cmdQ = Tail(@)]
    IN  /\ p.wk["cmd"] > 0
        /\ pools' = [pools EXCEPT ![f] =
              IF p.cmdQ = <<>> THEN Move(p, "cmd", "top")
              ELSE IF Head(p.cmdQ).Tag = Cmd.Stop THEN Move(q, "cmd", "quit")
              ELSE IF Head(p.cmdQ).Tag = Cmd.Pause /\ IsNumber(Head(p.cmdQ).Payload)
                   THEN Move(q, "cmd", "sleep")
              ELSE Move(q, "cmd", "top")]
        /\ UNCHANGED <<nx, nxCalls>>
        /\ UNCHANGED outsidePool

XfrWorkerWake ==
    /\ pools[Facility.XFR].wk["sleep"] > 0
    /\ pools' = [pools EXCEPT ![Facility.XFR] = Move(@, "sleep", "top")]
    /\ UNCHANGED <<nx, nxCalls>>
    /\ UNCHANGED outsidePool

\* _scan_worker after the poll of cmdQ: scanQ.get raises ShutDown once scanQ
\* is shut down.
ScanWork(p) ==
    Move(p, "cmd", IF "scanQ" \in p.shut THEN "fin" ELSE "top")

\* _scan_worker, one round: cmdQ.get_nowait() raises ShutDown on a queue that
\* is shut down and empty; Stop and StopOne return; every other message is
\* taken and nothing is done about it.
ScanWorkerRound ==
    LET f == Facility.Scanner
        p == pools[f]
        q == [p EXCEPT !.cmdQ = Tail(@)]
    IN  /\ p.wk["cmd"] > 0
        /\ pools' = [pools EXCEPT ![f] =
              IF p.cmdQ = <<>>
              THEN IF "cmdQ" \in p.shut THEN Move(p, "cmd", "fin") ELSE ScanWork(p)
              ELSE IF Head(p.cmdQ).Tag \in {Cmd.StopOne, Cmd.Stop}
                   THEN Move(q, "cmd", "quit")
              ELSE ScanWork(q)]
        /\ UNCHANGED <<nx, nxCalls>>
        /\ UNCHANGED outsidePool

\* _scan_worker: scan_port raises what the worker does not handle
\* (ScanWorkerProbe, outcome "error").
ScanWorkerRaises ==
    LET p == pools[Facility.Scanner]
    IN  /\ p.wk["cmd"] > 0
        /\ p.cmdQ = <<>>
        /\ p.shut = {}
        /\ p.active
        /\ pools' = [pools EXCEPT ![Facility.Scanner] = Move(@, "cmd", "fin")]
        /\ UNCHANGED <<nx, nxCalls>>
        /\ UNCHANGED outsidePool

\* A worker, `finally: with self.lock: self.wcnt -= 1`.
WorkerFinally(f) ==
    /\ ~pools[f].lock
    /\ \E from \in {"quit", "fin"} :
          /\ pools[f].wk[from] > 0
          /\ pools' = [pools EXCEPT ![f] =
                [Move(@, from, IF from = "quit" THEN "stopped" ELSE "done")
                    EXCEPT !.wcnt = @ - 1]]
    /\ UNCHANGED <<nx, nxCalls>>
    /\ UNCHANGED outsidePool

AuxEnds(p, role) ==
    [p EXCEPT !.ax[role].run = @ - 1, !.ax[role].done = @ + 1]

\* _host_worker: the loop ends when the pool is not active, and hostQ.get
\* raises ShutDown once another host_worker has shut the queue down;
\* finally: hostQ.shutdown(True).
HostWorkerQuits ==
    LET p == pools[Facility.Generator]
    IN  /\ p.ax["host_worker"].run > 0
        /\ ~p.lock
        /\ ~p.active \/ "hostQ" \in p.shut
        /\ pools' = [pools EXCEPT ![Facility.Generator] =
                        [AuxEnds(@, "host_worker") EXCEPT !.shut = @ \cup {"hostQ"}]]
        /\ UNCHANGED <<nx, nxCalls>>
        /\ UNCHANGED outsidePool

\* _host_worker: host_add raises IntegrityError for an address that is
\* stored; the only handler is `except Empty`.
HostWorkerRaises ==
    LET p == pools[Facility.Generator]
    IN  /\ p.ax["host_worker"].run > 0
        /\ p.active
        /\ "hostQ" \notin p.shut
        /\ pools' = [pools EXCEPT ![Facility.Generator] =
                        [AuxEnds(@, "host_worker") EXCEPT !.shut = @ \cup {"hostQ"}]]
        /\ UNCHANGED <<nx, nxCalls>>
        /\ UNCHANGED outsidePool

\* XFRProcessor._feeder: the loop ends when the pool is not active; when it
\* is, host_get_no_xfr raises (FeederPoll).
XfrFeederEnds ==
    LET p == pools[Facility.XFR]
    IN  /\ p.ax["feeder"].run > 0
        /\ ~p.lock
        /\ pools' = [pools EXCEPT ![Facility.XFR] = AuxEnds(@, "feeder")]
        /\ UNCHANGED <<nx, nxCalls>>
        /\ UNCHANGED outsidePool

\* Scanner._feeder: the loop ends when the Scanner is not active;
\* finally: scanQ.shutdown() and _active = False.
ScanFeederQuits ==
    LET p == pools[Facility.Scanner]
    IN  /\ p.ax["feeder"].run > 0
        /\ ~p.active
        /\ pools' = [pools EXCEPT ![Facility.Scanner] =
                        [AuxEnds(@, "feeder") EXCEPT !.shut = @ \cup {"scanQ"},
                                                     !.active = FALSE]]
        /\ UNCHANGED <<nx, nxCalls>>
        /\ UNCHANGED outsidePool

\* Scanner._feeder: host_get_random raises (ScanFeederPoll), or scanQ.put
\* raises ShutDown.
ScanFeederRaises ==
    LET p == pools[Facility.Scanner]
    IN  /\ p.ax["feeder"].run > 0
        /\ p.active
        /\ p.wcnt >= 1
        /\ pools' = [pools EXCEPT ![Facility.Scanner] =
                        [AuxEnds(@, "feeder") EXCEPT !.shut = @ \cup {"scanQ"},
                                                     !.active = FALSE]]
        /\ UNCHANGED <<nx, nxCalls>>
        /\ UNCHANGED outsidePool

\* Scanner._gatherer: the loop ends when the Scanner is not active, and
\* resQ.get raises ShutDown once resQ is shut down; finally: _active = False.
ScanGathererQuits ==
    LET p == pools[Facility.Scanner]
    IN  /\ p.ax["gatherer"].run > 0
        /\ ~p.active \/ "resQ" \in p.shut
        /\ pools' = [pools EXCEPT ![Facility.Scanner] =
                        [AuxEnds(@, "gatherer") EXCEPT !.active = FALSE]]
        /\ UNCHANGED <<nx, nxCalls>>
        /\ UNCHANGED outsidePool

(***************************************************************************)
(* nexus.py: Nexus.start and Nexus.stop, call by call.                      *)
(***************************************************************************)

NoNexus == [active_flag |-> FALSE, pc |-> "none"]
NewNexus == [active_flag |-> FALSE, pc |-> "idle"]

NexusCalls(f, op, to) ==
    /\ ~pools[f].lock
    /\ pools' = [pools EXCEPT ![f] = IF op = "start" THEN Pool_start(f, @)
                                     ELSE Pool_stop(f, @)]
    /\ nxCalls' = Append(nxCalls, [op |-> op, fac |-> f])
    /\ nx' = [nx EXCEPT !.pc = to,
                        !.active_flag = IF nx.pc = "idle" THEN op = "start" ELSE @]
    /\ UNCHANGED outsidePool

\* Nexus.start: active_flag = True, self.gen.start(...)
NexusStart ==
    /\ nx.pc = "idle"
    /\ Len(nxCalls) + 3 <= MaxNexusLog
    /\ NexusCalls(Facility.Generator, "start", "start_xfr")

\* Nexus.start: self.xc.start(...)
NexusStartXfr ==
    /\ nx.pc = "start_xfr"
    /\ NexusCalls(Facility.XFR, "start", "start_scan")

\* Nexus.start: self.sc.start()
NexusStartScanner ==
    /\ nx.pc = "start_scan"
    /\ NexusCalls(Facility.Scanner, "start", "idle")

\* Nexus.stop: active_flag = False, self.gen.stop()
NexusStop ==
    /\ nx.pc = "idle"
    /\ Len(nxCalls) + 3 <= MaxNexusLog
    /\ NexusCalls(Facility.Generator, "stop", "stop_scan")

\* Nexus.stop: self.sc.stop(), once gen.stop() has returned
NexusStopScanner ==
    /\ nx.pc = "stop_scan"
    /\ pools[Facility.Generator].put = 0
    /\ NexusCalls(Facility.Scanner, "stop", "stop_xfr")

\* Nexus.stop: self.xc.stop()
NexusStopXfr ==
    /\ nx.pc = "stop_xfr"
    /\ NexusCalls(Facility.XFR, "stop", "stop_end")

\* Nexus.stop returns, once xc.stop() has.
NexusStopReturns ==
    /\ nx.pc = "stop_end"
    /\ pools[Facility.XFR].put = 0
    /\ nx' = [nx EXCEPT !.pc = "idle"]
    /\ UNCHANGED <<pools, nxCalls>>
    /\ UNCHANGED outsidePool

PoolIdle ==
    /\ pools = [f \in Facilities |-> NoPool]
    /\ nx = NoNexus
    /\ nxCalls = <<>>

\* One pool, constructed and not started.
PoolInit ==
    /\ \E f \in Facilities :
          pools = [g \in Facilities |-> IF g = f THEN NewPool(g, PoolWcnt) ELSE NoPool]
    /\ nx = NoNexus
    /\ nxCalls = <<>>

\* A Nexus with its three pools, not started.
NexusInit ==
    /\ pools = [f \in Facilities |-> NewPool(f, NexusWcnt)]
    /\ nx = NewNexus
    /\ nxCalls = <<>>

ThreadNext ==
    \/ \E f \in Facilities : StopPut(f)
    \/ \E f \in Facilities : WorkerLoopTest(f)
    \/ GenWorkerRound
    \/ XfrWorkerRound
    \/ ScanWorkerRound
    \/ ScanWorkerRaises
    \/ \E f \in Facilities : WorkerFinally(f)
    \/ HostWorkerQuits
    \/ HostWorkerRaises
    \/ XfrFeederEnds
    \/ ScanFeederQuits
    \/ ScanFeederRaises
    \/ ScanGathererQuits

PoolNext ==
    \/ \E f \in Facilities : PoolStart(f)
    \/ \E f \in Facilities : PoolStop(f)
    \/ \E f \in Facilities : PoolStartOne(f)
    \/ \E f \in Facilities : PoolStopOne(f)
    \/ \E f \in Facilities, payload \in Payloads : SendPause(f, payload)
    \/ \E f \in Facilities : StopOneResume(f)
    \/ GenWorkerWake
    \/ XfrWorkerWake
    \/ ThreadNext

NexusNext ==
    \/ NexusStart
    \/ NexusStartXfr
    \/ NexusStartScanner
    \/ NexusStop
    \/ NexusStopScanner
    \/ NexusStopXfr
    \/ NexusStopReturns
    \/ ThreadNext

\* What the scheduler and the assumption that every DNS or TCP operation
\* returns give: a thread that can take its next step takes it, and a put
\* that has room is done.  Nothing is assumed of the callers of the control
\* methods, nor of the exceptions of a round.
ThreadFairness ==
    /\ \A f \in Facilities :
          /\ WF_vars(StopPut(f))
          /\ WF_vars(StopOneResume(f))
          /\ WF_vars(WorkerLoopTest(f))
          /\ WF_vars(WorkerFinally(f))
    /\ WF_vars(GenWorkerRound)
    /\ WF_vars(GenWorkerWake)
    /\ WF_vars(XfrWorkerRound)
    /\ WF_vars(XfrWorkerWake)
    /\ WF_vars(ScanWorkerRound)
    /\ WF_vars(HostWorkerQuits)
    /\ WF_vars(XfrFeederEnds)
    /\ WF_vars(ScanFeederQuits)
    /\ WF_vars(ScanGathererQuits)

(***************************************************************************)
(* generator.py: the host queue between the gen_workers and the            *)
(* host_worker, which stores the generated Hosts.                          *)
(***************************************************************************)

MaxPuts == 3        \* Hosts the gen_workers put on hostQ

\* What the Store can answer a write with when another connection holds the
\* write lock past the busy timeout: sqlite3.OperationalError ("database is
\* locked").
StoreBusy == {FALSE, TRUE}

\* `with db: db.host_add(host)` on the host_worker's connection.
HostWorkerAdd(hostTbl, h, busy, t) ==
    IF busy THEN [err |-> "OperationalError", host |-> hostTbl]
    ELSE LET r == Database_host_add(hostTbl, h.name, h.addr, h.src, t)
         IN  [err |-> r.err, host |-> r.host]

\* _host_worker catches Empty only: what it does with another exception.
HostWorkerCatches(err) == err = ""

HwIdle ==
    /\ hostQ = <<>>
    /\ hw = [active |-> FALSE, pc |-> "none", puts |-> 0]
    /\ hwLog = <<>>

\* After ParallelGenerator.start(); the store is new or holds a host that a
\* zone transfer has stored.
HwInit ==
    /\ hostQ = <<>>
    /\ hw = [active |-> TRUE, pc |-> "run", puts |-> 0]
    /\ hwLog = <<>>
    /\ now = 1
    /\ host \in {<<>>, <<[name |-> <<"a", ".", "z">>, addr |-> 1, src |-> HostSource.XFR,
                          added |-> 1, last_contact |-> Null, xfr |-> 0]>>}
    /\ svc = <<>>
    /\ xfr = <<>>
    /\ lastOp = NoOp

\* _gen_worker: hostQ.put(host) with the Host generate_host returned.
GenWorkerPut(name, addr) ==
    /\ hw.active
    /\ hw.pc = "run"
    /\ hw.puts < MaxPuts
    /\ hostQ' = Append(hostQ, NewHost(name, addr))
    /\ hw' = [hw EXCEPT !.puts = @ + 1]
    /\ UNCHANGED <<hwLog, host>>
    /\ UNCHANGED outsideHw

\* _host_worker, one round with a Host: hostQ.get, host_add. An exception
\* other than Empty leaves the loop: finally: db.close(), hostQ.shutdown(True),
\* which discards what is waiting.
HostWorkerRound(busy) ==
    /\ hw.active
    /\ hw.pc = "run"
    /\ hostQ # <<>>
    /\ LET h == Head(hostQ)
           r == HostWorkerAdd(host, h, busy, now)
       IN  /\ host' = r.host
           /\ hwLog' = Append(hwLog, [host |-> h, err |-> r.err])
           /\ IF HostWorkerCatches(r.err)
              THEN /\ hostQ' = Tail(hostQ)
                   /\ UNCHANGED hw
              ELSE /\ hostQ' = <<>>
                   /\ hw' = [hw EXCEPT !.pc = "done"]
    /\ UNCHANGED outsideHw

\* ParallelGenerator.stop: active = False.
GeneratorStops ==
    /\ hw.active
    /\ hw' = [hw EXCEPT !.active = FALSE]
    /\ UNCHANGED <<hostQ, hwLog, host>>
    /\ UNCHANGED outsideHw

\* _host_worker: the loop ends when the generator is no longer active.
HostWorkerEnds ==
    /\ ~hw.active
    /\ hw.pc = "run"
    /\ hw' = [hw EXCEPT !.pc = "done"]
    /\ hostQ' = <<>>
    /\ UNCHANGED <<hwLog, host>>
    /\ UNCHANGED outsideHw

HwNext ==
    \/ \E name \in GenNames, addr \in StoreAddrs : GenWorkerPut(name, addr)
    \/ \E busy \in StoreBusy : HostWorkerRound(busy)
    \/ GeneratorStops
    \/ HostWorkerEnds

(***************************************************************************)
(* The specifications.                                                     *)
(***************************************************************************)

InitBL == BLInit /\ GenIdle /\ StoreIdle /\ XfrIdle /\ ReadInit /\ ScanIdle /\ PoolIdle /\ CacheIdle /\ HwIdle
SpecBL == InitBL /\ [][BLNext]_vars

InitGen == BLIdle /\ GenInit /\ StoreIdle /\ XfrIdle /\ ReadInit /\ ScanIdle /\ PoolIdle /\ CacheIdle /\ HwIdle
SpecGen == InitGen /\ [][GenNext]_vars

InitStore == BLIdle /\ GenIdle /\ StoreInit /\ XfrIdle /\ ReadInit /\ ScanIdle /\ PoolIdle /\ CacheIdle /\ HwIdle
SpecStore == InitStore /\ [][StoreNext]_vars

InitRead == BLIdle /\ GenIdle /\ StoreInit /\ XfrIdle /\ ReadInit /\ ScanIdle /\ PoolIdle /\ CacheIdle /\ HwIdle
SpecRead == InitRead /\ [][ReadNext]_vars

InitSelect == BLIdle /\ GenIdle /\ XfrIdle /\ ReadInit /\ SelectInit /\ PoolIdle /\ CacheIdle /\ HwIdle
SpecSelect == InitSelect /\ [][SelectNext]_vars

InitScan == BLIdle /\ GenIdle /\ XfrIdle /\ ReadInit /\ ScanInit /\ PoolIdle /\ CacheIdle /\ HwIdle
SpecScan == InitScan /\ [][ScanNext]_vars
\* The threads of the Scanner get to run.
ScanFairness ==
    /\ WF_vars(\E rnd \in Randoms : ScanFeederPoll(rnd))
    /\ WF_vars(\E plist \in PlistPool : ScanFeederSelect(plist))
    /\ WF_vars(\E w \in ScanWorkers, outcome \in Outcomes : ScanWorkerProbe(w, outcome))
    /\ WF_vars(ScanFeederQuit)
    /\ WF_vars(GathererQuit)
    /\ \A w \in ScanWorkers : WF_vars(ScanWorkerQuit(w))
SpecScanFair == SpecScan /\ ScanFairness

InitGather == BLIdle /\ GenIdle /\ XfrIdle /\ ReadInit /\ GatherInit /\ PoolIdle /\ CacheIdle /\ HwIdle
SpecGather == InitGather /\ [][GatherNext]_vars

InitXfr == BLIdle /\ GenIdle /\ StoreInit /\ XfrInit /\ ReadInit /\ ScanIdle /\ PoolIdle /\ CacheIdle /\ HwIdle
SpecXfr == InitXfr /\ [][XfrNext]_vars
\* The feeder thread and the callers of perform_xfr get to run.
XfrFairness ==
    /\ WF_vars(FeederPoll)
    /\ \A c \in XfrCallers : WF_vars(PerformXfrAdd(c) \/ PerformXfrEnd(c) \/ WorkerDies(c))
SpecXfrFair == SpecXfr /\ XfrFairness

InitPool == BLIdle /\ GenIdle /\ StoreIdle /\ XfrIdle /\ ReadInit /\ ScanIdle /\ PoolInit /\ CacheIdle /\ HwIdle
SpecPool == InitPool /\ [][PoolNext]_vars
SpecPoolFair == SpecPool /\ ThreadFairness

InitNexus == BLIdle /\ GenIdle /\ StoreIdle /\ XfrIdle /\ ReadInit /\ ScanIdle /\ NexusInit /\ CacheIdle /\ HwIdle
SpecNexus == InitNexus /\ [][NexusNext]_vars

InitHw == BLIdle /\ GenIdle /\ XfrIdle /\ ReadInit /\ ScanIdle /\ PoolIdle /\ CacheIdle /\ HwInit
SpecHw == InitHw /\ [][HwNext]_vars

InitCache == BLIdle /\ GenIdle /\ StoreIdle /\ XfrIdle /\ ReadInit /\ ScanIdle /\ PoolIdle /\ HwIdle
                /\ CacheInit
SpecCache == InitCache /\ [][CacheNext]_vars

Init == InitBL \/ InitGen \/ InitStore \/ InitXfr \/ InitRead \/ InitSelect \/ InitScan \/ InitGather
            \/ InitPool \/ InitNexus \/ InitCache \/ InitHw
Next == BLNext \/ GenNext \/ StoreNext \/ XfrNext \/ ReadNext \/ SelectNext \/ ScanNext \/ GatherNext
            \/ PoolNext \/ NexusNext \/ CacheNext \/ HwNext
Spec == Init /\ [][Next]_vars

(***************************************************************************)
(* Properties.                                                             *)
(***************************************************************************)

IsBlacklistedAddr(addr) ==
    \E k \in DOMAIN forbidden_networks : Covers(forbidden_networks[k], addr)

IsBlacklistedName(name) ==
    \E k \in DOMAIN forbidden_names : Search(forbidden_names[k], name)

IsPrefix(s, t) == Len(s) <= Len(t) /\ s = SubSeq(t, 1, Len(s))

\* C1: no address that generate_ip returned lies in a network of the network
\* blacklist.
C1_ReturnedNotBlacklisted ==
    \A i \in DOMAIN returned : ~IsBlacklistedAddr(returned[i].addr)

\* C2: between two purges of the cache (no entry ever expires: the generator's
\* cache has no ttl) no address is returned twice by generate_ip, whichever
\* gen_workers made the calls.
C2_NoAddressReturnedTwice ==
    \A i, j \in DOMAIN returned :
        (i < j /\ returned[i].gen = returned[j].gen)
            => returned[i].addr # returned[j].addr

C4_SortedAfterHit ==
    /\ (blLast.kind = "ip" /\ blLast.ret) => SortedByHits(networks)
    /\ (blLast.kind = "name" /\ blLast.ret) => SortedByHits(patterns)

\* A list that was constructed unsorted has answered true.
C4_Witness ==
    /\ blLast.kind = "ip"
    /\ blLast.ret
    /\ ~SortedByHits(blInit)
    /\ networks # blInit

ListABC == IPBlacklist_from_list(<<NetA, NetB, NetC>>)
AddrInA == NetA.base
AddrInB == NetB.base
AddrInC == NetC.base
AddrFree == CHOOSE a \in ProbeAddrs : a \notin {AddrInA, AddrInB, AddrInC}

\* Lookups so far: only matching ones for A and C, at most n for A.
OnlyAandC(n) ==
    /\ blInit = ListABC
    /\ ipCalls[AddrInB] = 0
    /\ ipCalls[AddrFree] = 0
    /\ ipCalls[AddrInA] <= n

NetOrder == [i \in DOMAIN networks |-> networks[i].net]

\* C5: from the list [A,B,C] of pairwise disjoint networks, 3 lookups in C and
\* 1 in A, in any order, leave the order [C,A,B]; on the way items with equal
\* hit count keep their relative order (after the lookup in A alone B is still
\* before C, after lookups in C alone A is still before B); and the third lookup
\* in C is answered by the first item compared.
C5_OrderAfterLookups ==
    OnlyAandC(1) =>
        /\ (ipCalls[AddrInC] = 3 /\ ipCalls[AddrInA] = 1)
              => NetOrder = <<NetC, NetA, NetB>>
        /\ (ipCalls[AddrInC] = 0 /\ ipCalls[AddrInA] = 1)
              => NetOrder = <<NetA, NetB, NetC>>
        /\ (ipCalls[AddrInC] >= 1 /\ ipCalls[AddrInA] = 0)
              => NetOrder = <<NetC, NetA, NetB>>
        /\ (blLast.kind = "ip" /\ blLast.arg = AddrInC /\ ipCalls[AddrInC] = 3)
              => blLast.cmp = 1

\* The four lookups are done, the one in A having come first.
C5_Witness ==
    /\ OnlyAandC(1)
    /\ ipCalls[AddrInC] = 3
    /\ ipCalls[AddrInA] = 1
    /\ blLast.kind = "ip"
    /\ blLast.arg = AddrInC
    /\ networks[1].hit_cnt = 3

\* C6: every row of table host has a non-empty name.
C6_HostNamesNonEmpty ==
    \A i \in DOMAIN host : host[i].name # <<>>

\* C7: every row of table svc has a port in 1..65535 and the id of a row of
\* table host; a ServiceAdd with a port outside of the range or an unknown
\* host_id ends with DBError and leaves the number of svc rows as it was.
C7_ServiceRowsValid ==
    /\ \A i \in DOMAIN svc :
          /\ svc[i].port >= 1 /\ svc[i].port <= 65535
          /\ svc[i].host_id \in DOMAIN host
    /\ (lastOp.op = "ServiceAdd" /\ (lastOp.badPort \/ lastOp.badHost))
          => (lastOp.err = "DBError" /\ Len(svc) = lastOp.nsvc)

\* A ServiceAdd for a stored host with a port out of range was refused.
C7_Witness ==
    /\ lastOp.op = "ServiceAdd"
    /\ lastOp.badPort
    /\ ~lastOp.badHost
    /\ lastOp.err = "DBError"

C9_XfrTimestampsOrdered ==
    \A i \in DOMAIN xfr :
        \/ xfr[i].finished = 0
        \/ (xfr[i].finished >= xfr[i].started /\ xfr[i].started >= xfr[i].added)

\* C10: every xfr row is added, then started, then finished, each once: the
\* events of a row are a prefix of added, started, finished.
C10_XfrLifecycleInOrder ==
    \A i \in DOMAIN xlog : IsPrefix(xlog[i], <<"added", "started", "finished">>)

HostAddrsUnique ==
    \A i, j \in DOMAIN host : i # j => host[i].addr # host[j].addr

\* C11: no two rows of table host have the same address, and a HostAdd for an
\* address that has a row already ends with IntegrityError and leaves table
\* host as it was.
C11_DuplicateAddressRefused ==
    /\ []HostAddrsUnique
    /\ [][\A name \in StoreNames, addr \in StoreAddrs, src \in StoreSrcs :
            (HostAdd(name, addr, src) /\ \E i \in DOMAIN host : host[i].addr = addr)
                => (host' = host /\ lastOp'.err = "IntegrityError")]_vars

\* A HostAdd on a table with a row was refused.
C11_Witness ==
    /\ lastOp.op = "HostAdd"
    /\ lastOp.err = "IntegrityError"
    /\ Len(host) >= 1

\* The callers that are past xfr_add and on their way to or in the AXFR step.
InAxfr(c) == xpc[c] \in {"lookup", "try"}

\* C12: for one zone name there is one xfr row at most, whatever the
\* interleaving of the perform_xfr calls; an xfr_add for a name that has a row
\* ends with IntegrityError and adds none; and of the callers working on one
\* name at most one is past xfr_add (each of them on the row of that name).
C12_OneRowOneCallerPerZone ==
    /\ [](\A i, j \in DOMAIN xfr : i # j => xfr[i].name # xfr[j].name)
    /\ [](\A c, d \in XfrCallers :
            (c # d /\ InAxfr(c) /\ InAxfr(d)) => xobj[c].name # xobj[d].name)
    /\ [](\A c \in XfrCallers :
            InAxfr(c) => /\ xobj[c].zone_id \in DOMAIN xfr
                         /\ xfr[xobj[c].zone_id].name = xobj[c].name)
    /\ [][\A c \in XfrCallers :
            (PerformXfrAdd(c) /\ ~XfrNameFree(xfr, xobj[c].name))
                => (xfr' = xfr /\ lastOp'.err = "IntegrityError" /\ ~InAxfr(c)')]_vars

\* Two callers were given the same zone at once; the one whose xfr_add came
\* second was refused while the first is in the AXFR step.
C12_Witness ==
    \E c, d \in XfrCallers :
        /\ c # d
        /\ xobj[c].name = xobj[d].name
        /\ InAxfr(c)
        /\ xpc[d] = "raised"
        /\ lastOp.op = "XfrAdd"
        /\ lastOp.err = "IntegrityError"

\* C20: perform_xfr for a zone that has an xfr row already adds no row, makes
\* no AXFR attempt and returns to the worker without an exception.
C20_ExistingRowIsNoOp ==
    [][\A c \in XfrCallers :
        (PerformXfrAdd(c) /\ ~XfrNameFree(xfr, xobj[c].name))
            => (xfr' = xfr /\ xpc'[c] = "returned")]_vars

ObjOf(h) == [host_id |-> h.host_id, addr |-> h.addr, name |-> h.name, src |-> h.src]

\* C13: after HostAdd of k hosts with pairwise distinct addresses into the
\* empty store, the list of HostGetAll has k hosts, which are those hosts with
\* the ids HostAdd gave them, and the ids are positive and pairwise distinct.
C13_GetAllReturnsAdded ==
    (lastOp.op = "HostGetAll" /\ Len(hostObjs) = Len(host)) =>
        /\ Len(got.hosts) = Len(hostObjs)
        /\ {ObjOf(got.hosts[i]) : i \in DOMAIN got.hosts} = Range(hostObjs)
        /\ \A i \in DOMAIN got.hosts : got.hosts[i].host_id > 0
        /\ \A i, j \in DOMAIN got.hosts :
              i # j => got.hosts[i].host_id # got.hosts[j].host_id

\* Two hosts were added and HostGetAll has returned them.
C13_Witness ==
    /\ lastOp.op = "HostGetAll"
    /\ Len(hostObjs) = 2
    /\ Len(got.hosts) = 2

\* C14: HostGetRandom(n) with n > 0 on a store of at least n hosts returns n
\* hosts, whatever RANDOM() answers.
C14_GetRandomReturnsN ==
    (lastOp.op = "HostGetRandom" /\ got.cnt > 0 /\ Len(host) >= got.cnt) =>
        (lastOp.err = "" /\ Len(got.hosts) = got.cnt)

\* The ports of the services stored for a host.
StoredPorts(host_id) == {svc[i].port : i \in {j \in DOMAIN svc : svc[j].host_id = host_id}}

\* C15: the port _select_port returns for a host is none the host has a stored
\* Service for, whatever the host's provenance, its stored ports and the
\* permutation drawn.
C15_SelectedPortNotStored ==
    (selected.called /\ selected.port # NoPort)
        => selected.port \notin StoredPorts(selected.host_id)

\* A port was selected for a mail exchanger that has services stored, other
\* than the first of the permutation.
C15_Witness ==
    /\ selected.called
    /\ selected.src = HostSource.MX
    /\ selected.port # NoPort
    /\ selected.port # selected.plist[1]
    /\ StoredPorts(selected.host_id) # {}

\* Every port _select_port can return for a host of the given provenance.
Candidates(src) ==
    Range(interesting_ports)
        \cup (IF src = HostSource.MX THEN {25, 110, 143, 587} ELSE {})
        \cup (IF src = HostSource.NS THEN {53} ELSE {})

\* C16: _select_port returns None for a host whose stored ports cover the
\* curated list and the ports of its provenance (587 for an MX host).
C16_ExhaustedReturnsNone ==
    (selected.called /\ Candidates(selected.src) \subseteq StoredPorts(selected.host_id))
        => selected.port = NoPort

\* An MX host with all of the list and 587 stored got None.
C16_Witness ==
    /\ selected.called
    /\ selected.src = HostSource.MX
    /\ 587 \in StoredPorts(selected.host_id)
    /\ Candidates(selected.src) \subseteq StoredPorts(selected.host_id)
    /\ selected.port = NoPort

\* The probe table of scan_port as specified.
ProbeTable(port) ==
    IF port \in {21, 22, 25, 110, 143, 220} THEN "scan_tcp_generic"
    ELSE IF port \in {80, 443, 8080} THEN "scan_http"
    ELSE IF port = 79 THEN "scan_finger"
    ELSE IF port \in {23, 3270, 9023} THEN "scan_telnet"
    ELSE IF port = 53 THEN "scan_dns"
    ELSE "none"

\* C17: scan_port hands every request to the probe the table names for its
\* port (53 to scan_dns), and a port the table does not name is not probed and
\* gives no result.
C17_DispatchFollowsTable ==
    \A i \in DOMAIN probes :
        /\ probes[i].probe = ProbeTable(probes[i].port)
        /\ ProbeTable(probes[i].port) = "none" => ~probes[i].ok

\* C18: the Service of every probe that succeeded is on resQ or in table svc
\* (put on resQ by the scan worker, taken from there and inserted by the
\* gatherer).
C18_SuccessfulProbeIsKept ==
    \A i \in DOMAIN probes :
        probes[i].ok =>
            \/ \E k \in DOMAIN resQ :
                  resQ[k].host_id = probes[i].host_id /\ resQ[k].port = probes[i].port
            \/ \E k \in DOMAIN svc :
                  svc[k].host_id = probes[i].host_id /\ svc[k].port = probes[i].port

SameService(a, b) == a.host_id = b.host_id /\ a.port = b.port

C21_AttemptEndsFinished ==
    \A c \in XfrCallers :
        xpc[c] = "returned"
            => /\ xobj[c].zone_id \in DOMAIN xfr
               /\ xfr[xobj[c].zone_id].finished # 0

\* The records of a transfer that pass both blacklists.
XfrAccepted(zone, recs) ==
    {k \in DOMAIN recs :
        /\ ~IsBlacklistedName(recs[k].label)
        /\ ~IsBlacklistedName(recs[k].label \o <<".">> \o zone)
        /\ ~IsBlacklistedAddr(recs[k].addr)}

StoredAddrs(hostTbl) == {hostTbl[i].addr : i \in DOMAIN hostTbl}

\* C22: a successful zone transfer keeps the stored hosts as they are and adds
\* one host with src=XFR for every address that a record passing the name
\* blacklist and the network blacklist carries and that is not stored yet,
\* named by such a record; a record whose address is stored adds nothing and
\* does not keep the records behind it from being added; and the xfr row ends
\* with status true.
C22_TransferStoresNewHosts ==
    [][\A c \in XfrCallers, recs \in ZoneContents :
        PerformXfrOk(c, recs)
            => LET zone == xobj[c].name
                   ok == XfrAccepted(zone, recs)
                   fresh == {recs[k].addr : k \in ok} \ StoredAddrs(host)
               IN  /\ IsPrefix(host, host')
                   /\ Len(host') = Len(host) + Cardinality(fresh)
                   /\ {host'[i].addr : i \in (DOMAIN host') \ (DOMAIN host)} = fresh
                   /\ \A i \in (DOMAIN host') \ (DOMAIN host) :
                        /\ host'[i].src = HostSource.XFR
                        /\ \E k \in ok :
                              /\ recs[k].addr = host'[i].addr
                              /\ recs[k].label \o <<".">> \o zone = host'[i].name
                   /\ xfr'[xobj[c].zone_id].status = 1]_vars

\* Two transfers have succeeded: the first stored address 2; of the second
\* one record was blacklisted, the next carried the stored address 2 and was
\* skipped, and the one behind it was stored.
C22_Witness ==
    /\ lastOp.op = "XfrFinish"
    /\ Len(host) = 2
    /\ host[1].addr = 2
    /\ host[2].addr = 3
    /\ host[2].name = <<"m", ".", "z">>
    /\ host[2].src = HostSource.XFR
    /\ \A i \in DOMAIN xfr : xfr[i].status = 1
    /\ Len(xfr) = 2

\* The queues a pool hands its work over in.
WorkQueues(f) ==
    IF f = Facility.Generator THEN {"hostQ"}
    ELSE IF f = Facility.XFR THEN {"requestQ"}
    ELSE {"scanQ", "resQ"}

AllTerminated(p) ==
    /\ Workers(p) = 0
    /\ \A role \in AuxRoles : p.ax[role].run = 0

\* C23: once stop() is called on a started pool, and unless the pool is
\* started again, its active flag is false and eventually all its threads
\* (workers, host_worker, feeder, gatherer) have ended and its work queues
\* are shut down.
C23_GracefulStop ==
    \A f \in Facilities :
        (pools[f].hist.run = "stopped")
            ~> \/ pools[f].hist.run # "stopped"
               \/ /\ ~pools[f].active
                  /\ AllTerminated(pools[f])
                  /\ WorkQueues(f) \subseteq pools[f].shut

\* C24: start_one on an active ParallelGenerator or Scanner starts one more
\* worker thread, exactly one, and adds exactly one to the pool's wcnt.
C24_StartOneAddsOneWorker ==
    [][\A f \in {Facility.Generator, Facility.Scanner} :
        (PoolStartOne(f) /\ pools[f].active)
            => /\ Started(pools'[f]) = Started(pools[f]) + 1
               /\ Workers(pools'[f]) = Workers(pools[f]) + 1
               /\ pools'[f].wcnt = pools[f].wcnt + 1]_vars

\* C25: in a pool that stop() was never called on, a stop_one puts exactly one
\* Stop message on cmdQ (at once or when the queue has room), and when the
\* last running worker ends on a Stop message, the pool's active flag is
\* false.
C25_LastStopOneClearsActive ==
    [][\A f \in Facilities :
        /\ (PoolStopOne(f) /\ pools[f].active /\ pools[f].wcnt >= 1
                /\ ~pools[f].hist.stops)
              => Len(pools'[f].cmdQ) + pools'[f].put + (IF pools'[f].lock THEN 1 ELSE 0)
                    = Len(pools[f].cmdQ) + pools[f].put + 1
        /\ (/\ WorkerFinally(f)
            /\ pools'[f].wk["stopped"] = pools[f].wk["stopped"] + 1
            /\ Workers(pools'[f]) = 0
            /\ ~pools[f].hist.stops)
              => ~pools'[f].active]_vars

\* C26: a worker of the ParallelGenerator or the Scanner that takes a
\* Pause(seconds) message from cmdQ goes to sleep (and then on with its
\* loop), no worker leaves its loop, and wcnt and the active flag stay.
C26_PauseSuspendsOneWorker ==
    [][\A f \in {Facility.Generator, Facility.Scanner} :
        (/\ GenWorkerRound \/ ScanWorkerRound
         /\ pools[f].wk["cmd"] > 0
         /\ pools[f].cmdQ # <<>>
         /\ Head(pools[f].cmdQ).Tag = Cmd.Pause
         /\ IsNumber(Head(pools[f].cmdQ).Payload))
            => /\ pools'[f].cmdQ = Tail(pools[f].cmdQ)
               /\ pools'[f].wk["sleep"] = pools[f].wk["sleep"] + 1
               /\ pools'[f].wk["cmd"] = pools[f].wk["cmd"] - 1
               /\ pools'[f].wk["quit"] = pools[f].wk["quit"]
               /\ pools'[f].wk["fin"] = pools[f].wk["fin"]
               /\ pools'[f].wcnt = pools[f].wcnt
               /\ pools'[f].active = pools[f].active]_vars

StartOrder == <<Facility.XFR, Facility.Generator, Facility.Scanner>>
StopOrder == <<Facility.Scanner, Facility.Generator, Facility.XFR>>

\* C27: the pool methods the Nexus calls come in threes, one start() or
\* stop() of the Nexus each: a start() calls XFR, Generator, Scanner in this
\* order, a stop() calls Scanner, Generator, XFR.
C27_NexusOrder ==
    \A i \in DOMAIN nxCalls :
        LET k == ((i - 1) % Len(StartOrder)) + 1
        IN  nxCalls[i].fac = IF nxCalls[i].op = "start" THEN StartOrder[k]
                             ELSE StopOrder[k]

\* The last method the Nexus called on facility f.
LastOp(log, f) ==
    LET I == {i \in DOMAIN log : log[i].fac = f}
    IN  IF I = {} THEN "none"
        ELSE log[CHOOSE i \in I : \A j \in I : j <= i].op

\* C28: when the Nexus calls start() on a pool whose last call was a start(),
\* or stop() on a pool whose last call was a stop(), the pool (its threads,
\* its wcnt, its active flag, its queues) is left as it is.
C28_NexusIdempotent ==
    [][\A f \in Facilities :
        (/\ Len(nxCalls') = Len(nxCalls) + 1
         /\ nxCalls'[Len(nxCalls')].fac = f
         /\ nxCalls'[Len(nxCalls')].op = LastOp(nxCalls, f))
            => pools'[f] = pools[f]]_vars

\* C29: a get or a contains in a transaction reports the key as present
\* exactly if the transaction sees an entry for it whose expiry is absent or
\* in the future; and when the entry it sees is expired, the key is reported
\* absent, and the transaction goes on without the entry if it is read-write
\* and with it if it is read-only.
C29_ExpiredEntriesSwept ==
    [][\A key \in CacheKeys :
        (TxGet(key) \/ TxContains(key))
            => LET live == \E e \in cacheTx.db :
                              e.key = key /\ (e.expires = NoExpiry \/ e.expires > now)
                   stale == \E e \in cacheTx.db :
                              e.key = key /\ e.expires # NoExpiry /\ e.expires <= now
               IN  /\ cacheLast'.found = live
                   /\ stale => /\ cacheTx'.open
                               /\ IF cacheTx.rw
                                  THEN Entry(cacheTx'.db, key) = {}
                                  ELSE cacheTx'.db = cacheTx.db]_vars

\* C30: for a host of provenance MX, _select_port returns the first of 25,
\* 110, 143, 587 (in this order) that the host has no stored Service for,
\* whatever the permutation of the curated list; for a host of provenance NS
\* that has no Service for 53 stored it returns 53.
C30_ProvenancePortsFirst ==
    selected.called =>
        LET stored == StoredPorts(selected.host_id)
            order == <<25, 110, 143, 587>>
        IN  /\ selected.src = HostSource.MX =>
                \A k \in DOMAIN order :
                    (order[k] \notin stored /\ \A j \in 1 .. (k - 1) : order[j] \in stored)
                        => selected.port = order[k]
            /\ (selected.src = HostSource.NS /\ 53 \notin stored) => selected.port = 53

\* A mail exchanger with 25, 110 and 143 stored got 587, though the first port
\* of the permutation is not stored either.
C30_Witness ==
    /\ selected.called
    /\ selected.src = HostSource.MX
    /\ StoredPorts(selected.host_id) = {25, 110, 143}
    /\ selected.plist[1] \notin StoredPorts(selected.host_id)
    /\ selected.port = 587

\* C31: while wcnt is zero and the Scanner is active, a feeder that is at the
\* top of its loop fetches no hosts and puts nothing on scanQ; it stays at the
\* top of the loop (sleeps and re-checks) and the Scanner stays active unless
\* stop() is called.
C31_IdleFeederOnlySleeps ==
    [][(wcnt < 1 /\ scActive /\ sfpc = "poll")
          => /\ fhosts' = fhosts
             /\ scanQ' = scanQ
             /\ sfpc' = "poll"
             /\ (scActive' \/ ScannerStop)]_vars

\* Both scan workers have ended on a probe that raised, the Scanner is still
\* active and its feeder is at the top of the loop.
C31_Witness ==
    /\ wcnt = 0
    /\ scActive
    /\ sfpc = "poll"
    /\ \A w \in ScanWorkers : wpc[w] = "quit"
    /\ scanQ = <<>>

\* C31 as stated: in no step taken while wcnt is zero and the Scanner is
\* active are hosts fetched or is a ScanRequest put on scanQ, wherever the
\* feeder is in its loop.
C31_NoRequestWhileIdle ==
    [][(wcnt < 1 /\ scActive)
          => /\ Len(scanQ') <= Len(scanQ)
             /\ Len(fhosts') <= Len(fhosts)]_vars

InHostQ(h) == \E k \in DOMAIN hostQ : hostQ[k] = h

\* C32: a generated Host whose host_add failed because the Store was locked is
\* put back on the host queue: in the step in which the host_worker's host_add
\* ends with the lock error, the Host is on hostQ afterwards.
C32_LockedHostRequeued ==
    [][\A busy \in StoreBusy :
          (HostWorkerRound(busy) /\ hwLog'[Len(hwLog')].err = "OperationalError")
              => InHostQ(Head(hostQ))']_vars

\* C33, the generator's host_worker: when host_add ends with an IntegrityError
\* (the address is stored already), the host_worker is still running
\* afterwards and the Hosts waiting behind the skipped one are still on hostQ.
C33_StoreErrorKeepsLoop ==
    [][\A busy \in StoreBusy :
          (HostWorkerRound(busy) /\ hwLog'[Len(hwLog')].err = "IntegrityError")
              => /\ hw'.pc = "run"
                 /\ hostQ' = Tail(hostQ)]_vars

\* C34: stop_one of the ParallelGenerator or the XFRProcessor is never left
\* waiting for room on a cmdQ full of its own Stop messages with the pool lock
\* held while no worker can take a message any more: whenever it waits there,
\* some worker is at a place from which it gets to cmdQ.get without taking the
\* lock (at the poll, or asleep on a Pause).
C34_StopOneNeverStuck ==
    \A f \in {Facility.Generator, Facility.XFR} :
        (/\ pools[f].lock
         /\ \A k \in DOMAIN pools[f].cmdQ : pools[f].cmdQ[k].Tag = Cmd.Stop)
            => pools[f].wk["cmd"] + pools[f].wk["sleep"] > 0

\* C35: stop() of the ParallelGenerator and of the XFRProcessor always
\* returns: when it waits in cmdQ.put with Stop messages still to put, on a
\* queue that holds nothing but Stop messages, eventually all of them are put.
C35_StopReturns ==
    \A f \in {Facility.Generator, Facility.XFR} :
        (/\ pools[f].put > 0
         /\ \A k \in DOMAIN pools[f].cmdQ : pools[f].cmdQ[k].Tag = Cmd.Stop)
            ~> (pools[f].put = 0)

\* C36: in every pool wcnt is never negative and is the number of worker
\* threads running (started and not yet past `finally: wcnt -= 1`).
C36_WcntCountsWorkers ==
    \A f \in Facilities :
        (pools[f].built /\ pools[f].hist.run # "new")
            => /\ pools[f].wcnt >= 0
               /\ pools[f].wcnt = Workers(pools[f])

\* C37: a pool can be started again: a start() of a pool that was stopped
\* and whose threads have all ended leaves the pool active with as many
\* workers running as the pool was constructed for.
C37_RestartBringsWorkersBack ==
    [][\A f \in Facilities :
          (/\ PoolStart(f)
           /\ pools[f].hist.run = "stopped"
           /\ pools[f].put = 0
           /\ AllTerminated(pools[f]))
              => /\ pools'[f].active
                 /\ Workers(pools'[f]) = PoolWcnt]_vars

\* C38: a host whose xfr flag is set has a row for its zone in the xfr table.
C38_FlaggedHostHasXfrRow ==
    \A i \in DOMAIN host :
        host[i].xfr = 1 => \E k \in DOMAIN xfr : xfr[k].name = Host_zone(host[i].name)

\* Hosts that wait for the feeder: stored with xfr = 0.
NoXfrHosts == {i \in DOMAIN host : host[i].xfr = 0}

\* C39: the XFR feeder gets to every host: a stored host with xfr = 0
\* eventually has its flag set.
C39_FeederFlagsEveryHost ==
    \A i \in 1 .. MaxHosts :
        (i \in NoXfrHosts) ~> (i \in DOMAIN host /\ host[i].xfr = 1)

\* C40: the scanner gets past the port of the provenance: for a stored NS host
\* without a Service for 53, as long as the Scanner is active and no scan
\* worker has ended, eventually a ScanRequest for another port of the host is
\* put on scanQ.
C40_OtherPortsGetTheirTurn ==
    \A i \in 1 .. MaxHosts :
        (/\ i \in DOMAIN host
         /\ host[i].src = HostSource.NS
         /\ DnsPort \notin StoredPorts(i))
            ~> \/ \E k \in DOMAIN scanQ : scanQ[k].host_id = i /\ scanQ[k].port # DnsPort
               \/ ~scActive
               \/ wcnt < Cardinality(ScanWorkers)

====
